---- MODULE Spec2Model ----
(***************************************************************************)
(* PixooRadar: the poll controller (pixoo_radar/controller.py) as a state  *)
(* machine.  One action per entry of PixooRadarController: run() start-up  *)
(* and the three ways one run_once() cycle can go (device unreachable,     *)
(* candidate flight returned, no candidate).  The injected services        *)
(* (pixoo_service, flight_service, weather_service), the render functions  *)
(* and sleep_fn are the environment: every value or exception their        *)
(* interface allows is an input of the cycle, and every call the           *)
(* controller makes on them is logged in `calls`.                          *)
(***************************************************************************)
EXTENDS Integers, Sequences, FiniteSets, TLC

VARIABLES
    phase,                      \* "constructed" (after __init__) | "polling" (inside run()'s loop)
    idle_mode,                  \* settings.idle_mode, a string as a sequence of characters
    current_state,              \* self.current_state
    current_flight_id,          \* self.current_flight_id
    current_flight_signature,   \* self.current_flight_signature
    no_data_retry_seconds,      \* self.no_data_retry_seconds
    sent_view,                  \* last view successfully sent to the device since the last reset_tracking
    calls,                      \* calls made on the collaborators during the last cycle, in order
    pre,                        \* controller fields and inputs at the start of the last cycle
    raised,                     \* exception that left run()/run_once(), "none" while the loop is alive
    pixoo,                      \* one PixooClient.connect_with_retry call: its locals, the clock, what it did
    weather,                    \* a WeatherData object, the clock, and what its last call did
    flightdata,                 \* a FlightData object, the clock, and what its last call did
    selection,                  \* a candidate list and what the two selection functions made of it
    canvas                      \* one call of a render helper: its arguments, its locals, what it made

ctlVars == <<phase, idle_mode, current_state, current_flight_id, current_flight_signature,
             no_data_retry_seconds, sent_view, calls, pre, raised>>
vars == <<phase, idle_mode, current_state, current_flight_id, current_flight_signature,
          no_data_retry_seconds, sent_view, calls, pre, raised,
          pixoo, weather, flightdata, selection, canvas>>

----------------------------------------------------------------------------
\* Python values

\* Python None and "a value" as sequences of length 0 and 1
None == <<>>
Some(x) == <<x>>

\* settings (duck-typed attributes read by the controller)
no_flight_retry_seconds == 15
no_flight_max_retry_seconds == 120
data_refresh_seconds == 60

\* bounds of the environment
MaxCooldownSteps == 2
CooldownStep == 100
Cooldowns == {k * CooldownStep : k \in 0..MaxCooldownSteps}

\* settings.idle_mode values tried
IdleModes == { <<"w","e","a","t","h","e","r">>,
               <<"W","e","a","t","h","E","R">>,
               <<"h","o","l","d","i","n","g">> }

\* api_error values returned by get_last_api_error()
ApiErrors == { None, Some(""), Some("Flight fetch error") }

\* telemetry is in tenths of a unit, so that rounding has something to round
Icao24s == { None, Some("abc123"), Some("def456") }
Altitudes == { None, Some(0), Some(120004) }
GroundSpeeds == { Some(2500) }
Headings == { Some(900) }
Statuses == { None, Some(""), Some("CLIMB") }
Flights == [icao24 : Icao24s, altitude : Altitudes, ground_speed : GroundSpeeds,
            heading : Headings, status : Statuses]

ConnectOutcomes == { "connected", "RuntimeError" }
WeatherOutcomes == { "refreshed", "cached", "Exception", "Fatal" }
RenderOutcomes == { "ok", "Exception", "Fatal" }

----------------------------------------------------------------------------
\* models.RenderState: the members the enum defines
RenderState == [ FLIGHT_ACTIVE |-> "flight_active",
                 IDLE_WEATHER  |-> "idle_weather",
                 RATE_LIMIT    |-> "rate_limit",
                 API_ERROR     |-> "api_error" ]

\* attribute access RenderState.<name>: a missing member raises AttributeError
AttributeError == "AttributeError"
RenderStateMember(name) ==
    IF name \in DOMAIN RenderState THEN RenderState[name] ELSE AttributeError

NoState == "None"
\* what the device shows: the kind of screen and, for a holding screen, its status
NoView == <<"none", "">>
AnimationView == <<"animation", "">>
WeatherView == <<"weather", "">>
HoldingView(status) == <<"holding", status>>

\* str.lower() on the characters that occur
UpperToLower == [ A |-> "a", B |-> "b", C |-> "c", D |-> "d", E |-> "e", F |-> "f", G |-> "g",
                  H |-> "h", I |-> "i", J |-> "j", K |-> "k", L |-> "l", M |-> "m", N |-> "n",
                  O |-> "o", P |-> "p", Q |-> "q", R |-> "r", S |-> "s", T |-> "t", U |-> "u",
                  V |-> "v", W |-> "w", X |-> "x", Y |-> "y", Z |-> "z" ]
lower(s) == [i \in DOMAIN s |-> IF s[i] \in DOMAIN UpperToLower THEN UpperToLower[s[i]] ELSE s[i]]

\* Python truthiness of an optional string
Truthy(o) == o # None /\ o[1] # ""

\* `x or 0` for an optional number
OrZero(o) == IF o = None THEN 0 ELSE o[1]

\* int(round(float(x))) for x given in tenths: round half to even
PyRound(t) ==
    LET q == t \div 10
        r == t % 10
    IN  IF r < 5 THEN q
        ELSE IF r > 5 THEN q + 1
        ELSE IF q % 2 = 0 THEN q ELSE q + 1

Max(a, b) == IF a >= b THEN a ELSE b
Min(a, b) == IF a <= b THEN a ELSE b

\* a signature of the telemetry as it arrives, not rounded
flight_render_signature_unrounded(data) ==
    << data.icao24,
       OrZero(data.altitude),
       OrZero(data.ground_speed),
       OrZero(data.heading),
       IF Truthy(data.status) THEN data.status[1] ELSE "" >>

\* PixooRadarController.flight_render_signature
flight_render_signature(data) ==
    << data.icao24,
       PyRound(OrZero(data.altitude)),
       PyRound(OrZero(data.ground_speed)),
       PyRound(OrZero(data.heading)),
       IF Truthy(data.status) THEN data.status[1] ELSE "" >>

----------------------------------------------------------------------------
\* The controller's fields while one handler runs: c.exc is an exception in
\* flight inside the handler, c.raised one that has left run_once().
Ctl == [ state   |-> current_state,
         id      |-> current_flight_id,
         sig     |-> current_flight_signature,
         backoff |-> no_data_retry_seconds,
         view    |-> sent_view,
         calls   |-> <<>>,
         exc     |-> "none",
         raised  |-> "none" ]

\* a call on a collaborator: what was called, with what, what came back, and
\* the value of no_data_retry_seconds the callee could observe
Log(c, op, arg, res) ==
    [c EXCEPT !.calls = Append(@, [op |-> op, arg |-> arg, res |-> res, backoff |-> c.backoff])]

\* reset_tracking that forgets to clear the signature
reset_tracking_keeps_signature(c) ==
    [c EXCEPT !.state = NoState, !.id = None,
              !.backoff = no_flight_retry_seconds, !.view = NoView]

\* PixooRadarController.reset_tracking
reset_tracking(c) ==
    [c EXCEPT !.state = NoState, !.id = None, !.sig = None,
              !.backoff = no_flight_retry_seconds, !.view = NoView]

\* PixooRadarController.reconnect: connect_with_retry returns a connected
\* device or re-raises a RuntimeError; the tracking reset follows a return only
reconnect(c, fail_fast, conn) ==
    LET c1 == Log(c, "connect_with_retry", fail_fast, conn)
    IN  IF conn = "connected"
        THEN reset_tracking(c1)
        ELSE [c1 EXCEPT !.raised = "RuntimeError"]

\* a classification that takes no exception for fatal
is_fatal_weather_error_never(exc) == FALSE

\* PixooRadarController._is_fatal_weather_error
is_fatal_weather_error(exc) == exc = "Fatal"

\* PixooRadarController.resolve_target_state
resolve_target_state(cooldown_remaining, api_error, mode) ==
    IF cooldown_remaining > 0 THEN RenderStateMember("RATE_LIMIT")
    ELSE IF Truthy(api_error) THEN RenderStateMember("API_ERROR")
    ELSE IF lower(mode) = <<"w","e","a","t","h","e","r">> THEN RenderStateMember("IDLE_WEATHER")
    ELSE RenderStateMember("IDLE_HOLDING")

\* a build_and_send_* call: on success the view is on the device
Render(c, op, arg, view, render) ==
    LET c1 == Log(c, op, arg, render)
    IN  IF render = "ok" THEN [c1 EXCEPT !.view = view] ELSE [c1 EXCEPT !.exc = render]

\* the weather branch of both handlers: log line after a refreshed query
AfterWeatherQuery(c, wx) ==
    IF wx = "refreshed" THEN Log(c, "get_last_error", None, "ok") ELSE c

\* handle_state_transition that never forces the weather refresh
handle_state_transition_never_forces(c, target_state, wx, render) ==
    LET c0 == [c EXCEPT !.id = None, !.sig = None]
    IN  IF target_state = RenderState.IDLE_WEATHER
        THEN LET c1 == Log(c0, "get_current_with_options", FALSE, wx)
             IN  IF wx \in {"Exception", "Fatal"}
                 THEN [c1 EXCEPT !.exc = wx]
                 ELSE LET c2 == Render(AfterWeatherQuery(c1, wx),
                                       "build_and_send_weather_idle_screen", None,
                                       WeatherView, render)
                      IN  IF c2.exc = "none" THEN [c2 EXCEPT !.state = target_state] ELSE c2
        ELSE LET status == IF target_state = RenderState.RATE_LIMIT THEN "RATE LIMIT"
                           ELSE IF target_state = RenderState.API_ERROR THEN "API ERROR"
                           ELSE "NO FLIGHTS"
                 c2 == Render(c0, "build_and_send_holding_screen", status, HoldingView(status), render)
             IN  IF c2.exc = "none" THEN [c2 EXCEPT !.state = target_state] ELSE c2

\* PixooRadarController.handle_state_transition
handle_state_transition(c, target_state, wx, render) ==
    LET c0 == [c EXCEPT !.id = None, !.sig = None]
    IN  IF target_state = RenderState.IDLE_WEATHER
        THEN LET force_refresh == (c0.state = RenderState.FLIGHT_ACTIVE)
                 c1 == Log(c0, "get_current_with_options", force_refresh, wx)
             IN  IF wx \in {"Exception", "Fatal"}
                 THEN [c1 EXCEPT !.exc = wx]
                 ELSE LET c2 == Render(AfterWeatherQuery(c1, wx),
                                       "build_and_send_weather_idle_screen", None,
                                       WeatherView, render)
                      IN  IF c2.exc = "none" THEN [c2 EXCEPT !.state = target_state] ELSE c2
        ELSE LET status == IF target_state = RenderState.RATE_LIMIT THEN "RATE LIMIT"
                           ELSE IF target_state = RenderState.API_ERROR THEN "API ERROR"
                           ELSE "NO FLIGHTS"
                 c2 == Render(c0, "build_and_send_holding_screen", status, HoldingView(status), render)
             IN  IF c2.exc = "none" THEN [c2 EXCEPT !.state = target_state] ELSE c2

\* handle_same_state_tick that redraws whether or not the query refreshed
handle_same_state_tick_always_draws(c, target_state, wx, render) ==
    IF target_state = RenderState.IDLE_WEATHER
    THEN LET c1 == Log(c, "get_current", None, wx)
         IN  IF wx \in {"Exception", "Fatal"} THEN [c1 EXCEPT !.exc = wx]
             ELSE Render(AfterWeatherQuery(c1, wx), "build_and_send_weather_idle_screen", None,
                         WeatherView, render)
    ELSE c

\* PixooRadarController.handle_same_state_tick
handle_same_state_tick(c, target_state, wx, render) ==
    IF target_state = RenderState.IDLE_WEATHER
    THEN LET c1 == Log(c, "get_current", None, wx)
         IN  IF wx \in {"Exception", "Fatal"} THEN [c1 EXCEPT !.exc = wx]
             ELSE IF wx = "refreshed"
             THEN Render(AfterWeatherQuery(c1, wx), "build_and_send_weather_idle_screen", None,
                         WeatherView, render)
             ELSE c1
    ELSE c

\* run_once up to the poll: clock, reachability probe, flight service queries
Polled(c, found) ==
    LET c1 == Log(Log(c, "clock_fn", None, "ok"), "is_reachable", None, "reachable")
        c2 == Log(c1, "get_closest_flight", None, found)
    IN  Log(Log(c2, "get_api_cooldown_remaining", None, "ok"), "get_last_api_error", None, "ok")

\* handlers for the idle views that re-raise whatever they catch
CaughtIdle_reraises(c, conn) ==
    [c EXCEPT !.raised = c.exc, !.exc = "none"]

\* an exception caught by run_once's handlers for the idle views
CaughtIdle(c, conn) ==
    IF is_fatal_weather_error(c.exc)
    THEN [c EXCEPT !.raised = c.exc, !.exc = "none"]
    ELSE reconnect([c EXCEPT !.exc = "none"], FALSE, conn)

\* PixooRadarController.run_once, device unreachable
run_once_offline(c, conn) ==
    reconnect(Log(Log(c, "clock_fn", None, "ok"), "is_reachable", None, "unreachable"), FALSE, conn)

\* run_once that redraws a candidate whose signature is unchanged
run_once_flight_redraws_unchanged(c, data, render, conn) ==
    LET c1 == [Polled(c, "flight") EXCEPT !.backoff = no_flight_retry_seconds,
                                          !.state = RenderState.FLIGHT_ACTIVE]
        new_flight_id == data.icao24
        new_signature == flight_render_signature(data)
    IN  IF new_flight_id = c1.id
        THEN LET c2 == [c1 EXCEPT !.id = new_flight_id, !.sig = Some(new_signature)]
                 c3 == Render(c2, "build_and_send_animation", new_signature,
                              AnimationView, render)
             IN  IF c3.exc # "none"
                 THEN reconnect([c3 EXCEPT !.exc = "none"], FALSE, conn)
                 ELSE Log(c3, "sleep_fn", data_refresh_seconds, "ok")
        ELSE Log(c1, "sleep_fn", data_refresh_seconds, "ok")

\* run_once that returns at once when the telemetry is unchanged
run_once_flight_unchanged_returns_at_once(c, data, render, conn) ==
    LET c1 == [Polled(c, "flight") EXCEPT !.backoff = no_flight_retry_seconds,
                                          !.state = RenderState.FLIGHT_ACTIVE]
        new_flight_id == data.icao24
        new_signature == flight_render_signature(data)
    IN  IF new_flight_id = c1.id
        THEN IF Some(new_signature) = c1.sig
             THEN c1
             ELSE LET c2 == [c1 EXCEPT !.id = new_flight_id, !.sig = Some(new_signature)]
                      c3 == Render(c2, "build_and_send_animation", new_signature,
                                   AnimationView, render)
                  IN  IF c3.exc # "none"
                      THEN reconnect([c3 EXCEPT !.exc = "none"], FALSE, conn)
                      ELSE Log(c3, "sleep_fn", data_refresh_seconds, "ok")
        ELSE Log(c1, "sleep_fn", data_refresh_seconds, "ok")

\* PixooRadarController.run_once, the flight service returned a candidate
run_once_flight(c, data, render, conn) ==
    LET c1 == [Polled(c, "flight") EXCEPT !.backoff = no_flight_retry_seconds,
                                          !.state = RenderState.FLIGHT_ACTIVE]
        new_flight_id == data.icao24
        new_signature == flight_render_signature(data)
    IN  IF new_flight_id = c1.id
        THEN IF Some(new_signature) = c1.sig
             THEN Log(c1, "sleep_fn", data_refresh_seconds, "ok")
             ELSE LET c2 == [c1 EXCEPT !.id = new_flight_id, !.sig = Some(new_signature)]
                      c3 == Render(c2, "build_and_send_animation", new_signature,
                                   AnimationView, render)
                  IN  IF c3.exc # "none"
                      THEN reconnect([c3 EXCEPT !.exc = "none"], FALSE, conn)
                      ELSE Log(c3, "sleep_fn", data_refresh_seconds, "ok")
        ELSE Log(c1, "sleep_fn", data_refresh_seconds, "ok")

\* run_once that doubles the backoff before it sleeps
run_once_no_flight_doubles_first(c, cooldown_remaining, api_error, mode, wx, render, conn) ==
    LET c0 == Polled(c, "none")
        target_state == resolve_target_state(cooldown_remaining, api_error, mode)
        c1 == Log(c0, "resolve_target_state", <<cooldown_remaining, api_error>>, target_state)
    IN  IF target_state = AttributeError
        THEN [c1 EXCEPT !.raised = AttributeError]
        ELSE LET c2 == IF target_state # c1.state
                       THEN handle_state_transition(c1, target_state, wx, render)
                       ELSE handle_same_state_tick(c1, target_state, wx, render)
             IN  IF c2.exc # "none"
                 THEN CaughtIdle(c2, conn)
                 ELSE LET c3 == [c2 EXCEPT !.backoff = Min(c2.backoff * 2, no_flight_max_retry_seconds)]
                      IN  Log(c3, "sleep_fn", Max(c3.backoff, cooldown_remaining), "ok")

\* run_once that doubles the backoff without the ceiling
run_once_no_flight_uncapped(c, cooldown_remaining, api_error, mode, wx, render, conn) ==
    LET c0 == Polled(c, "none")
        retry_seconds == Max(c0.backoff, cooldown_remaining)
        target_state == resolve_target_state(cooldown_remaining, api_error, mode)
        c1 == Log(c0, "resolve_target_state", <<cooldown_remaining, api_error>>, target_state)
    IN  IF target_state = AttributeError
        THEN [c1 EXCEPT !.raised = AttributeError]
        ELSE LET c2 == IF target_state # c1.state
                       THEN handle_state_transition(c1, target_state, wx, render)
                       ELSE handle_same_state_tick(c1, target_state, wx, render)
             IN  IF c2.exc # "none"
                 THEN CaughtIdle(c2, conn)
                 ELSE LET c3 == Log(c2, "sleep_fn", retry_seconds, "ok")
                      IN  [c3 EXCEPT !.backoff = c3.backoff * 2]

\* PixooRadarController.run_once, the flight service returned no candidate
run_once_no_flight(c, cooldown_remaining, api_error, mode, wx, render, conn) ==
    LET c0 == Polled(c, "none")
        retry_seconds == Max(c0.backoff, cooldown_remaining)
        target_state == resolve_target_state(cooldown_remaining, api_error, mode)
        c1 == Log(c0, "resolve_target_state", <<cooldown_remaining, api_error>>, target_state)
    IN  IF target_state = AttributeError
        THEN [c1 EXCEPT !.raised = AttributeError]
        ELSE LET c2 == IF target_state # c1.state
                       THEN handle_state_transition(c1, target_state, wx, render)
                       ELSE handle_same_state_tick(c1, target_state, wx, render)
             IN  IF c2.exc # "none"
                 THEN CaughtIdle(c2, conn)
                 ELSE LET c3 == Log(c2, "sleep_fn", retry_seconds, "ok")
                      IN  [c3 EXCEPT !.backoff = Min(c3.backoff * 2, no_flight_max_retry_seconds)]

----------------------------------------------------------------------------
\* the controller's fields and the cycle's inputs, as the cycle found them
Pre(branch, flight, cooldown_remaining, api_error) ==
    [ branch |-> branch, state |-> current_state, id |-> current_flight_id,
      sig |-> current_flight_signature, backoff |-> no_data_retry_seconds,
      view |-> sent_view,
      flight |-> flight, cooldown |-> cooldown_remaining, api_error |-> api_error ]

\* the handler's result becomes the controller's state
Commit(c, p) ==
    /\ current_state' = c.state
    /\ current_flight_id' = c.id
    /\ current_flight_signature' = c.sig
    /\ no_data_retry_seconds' = c.backoff
    /\ sent_view' = c.view
    /\ calls' = c.calls
    /\ raised' = c.raised
    /\ pre' = p
    /\ UNCHANGED <<idle_mode, pixoo, weather, flightdata, selection, canvas>>

\* the components a specification does not exercise stay as they are here
ControllerParked ==
    /\ phase = "parked"
    /\ idle_mode = <<>>
    /\ current_state = NoState
    /\ current_flight_id = None
    /\ current_flight_signature = None
    /\ no_data_retry_seconds = no_flight_retry_seconds
    /\ sent_view = NoView
    /\ calls = <<>>
    /\ pre = <<>>
    /\ raised = "none"
ClientParked == pixoo = <<>>
WeatherParked == weather = <<>>
FlightDataParked == flightdata = <<>>
SelectionParked == selection = <<>>
CanvasParked == canvas = <<>>

\* PixooRadarController.__init__
Init ==
    /\ ClientParked /\ WeatherParked /\ FlightDataParked /\ SelectionParked /\ CanvasParked
    /\ phase = "constructed"
    /\ idle_mode \in IdleModes
    /\ current_state = NoState
    /\ current_flight_id = None
    /\ current_flight_signature = None
    /\ no_data_retry_seconds = no_flight_retry_seconds
    /\ sent_view = NoView
    /\ calls = <<>>
    /\ pre = [ branch |-> "init", state |-> NoState, id |-> None, sig |-> None,
               backoff |-> no_flight_retry_seconds, view |-> NoView,
               flight |-> None, cooldown |-> 0, api_error |-> None ]
    /\ raised = "none"

\* PixooRadarController.run: the start-up connection, then the loop
RunStart ==
    /\ phase = "constructed"
    /\ raised = "none"
    /\ \E conn \in ConnectOutcomes :
          Commit(reconnect(Ctl, TRUE, conn), Pre("start", None, 0, None))
    /\ phase' = "polling"

RunOnceOffline ==
    /\ phase = "polling"
    /\ raised = "none"
    /\ \E conn \in ConnectOutcomes :
          Commit(run_once_offline(Ctl, conn), Pre("offline", None, 0, None))
    /\ UNCHANGED phase

RunOnceFlight ==
    /\ phase = "polling"
    /\ raised = "none"
    /\ \E data \in Flights, render \in RenderOutcomes, conn \in ConnectOutcomes :
          Commit(run_once_flight(Ctl, data, render, conn), Pre("flight", Some(data), 0, None))
    /\ UNCHANGED phase

RunOnceNoFlight ==
    /\ phase = "polling"
    /\ raised = "none"
    /\ \E cooldown_remaining \in Cooldowns, api_error \in ApiErrors,
          wx \in WeatherOutcomes, render \in RenderOutcomes, conn \in ConnectOutcomes :
          Commit(run_once_no_flight(Ctl, cooldown_remaining, api_error, idle_mode, wx, render, conn),
                 Pre("noflight", None, cooldown_remaining, api_error))
    /\ UNCHANGED phase

Next == RunStart \/ RunOnceOffline \/ RunOnceFlight \/ RunOnceNoFlight

Spec == Init /\ [][Next]_vars

----------------------------------------------------------------------------
\* PixooClient.connect_with_retry (pixoo_radar/services/pixoo_client.py), one
\* loop iteration per step.  The Pizzoo constructor, load_font and the clock
\* are the environment.

\* settings
pixoo_reconnect_seconds == 60
pixoo_startup_connect_timeout_seconds == 120

\* bounds of the environment: attempts followed, seconds an attempt can take
MaxAttempts == 4
AttemptSeconds == 5
AttemptDurations == {0, AttemptSeconds}

\* what Pizzoo(ip) and pixoo.load_font can do
PizzooOutcomes == {"ok", "OSError", "RuntimeError"}
FontOutcomes == {"ok", "OSError"}

\* PixooClient._load_fonts: whatever load_font raises leaves as a RuntimeError
load_fonts(font) == IF font = "ok" THEN "ok" ELSE "RuntimeError"

\* the body of the try block: construct the device object, then load the fonts
connect_attempt(ctor, font) == IF ctor # "ok" THEN ctor ELSE load_fonts(font)

\* connect_with_retry up to the loop
connect_with_retry_enter(fail_fast, now) ==
    [ pc |-> "loop", fail_fast |-> fail_fast, now |-> now,
      deadline |-> IF fail_fast THEN Some(now + pixoo_startup_connect_timeout_seconds) ELSE None,
      trace |-> <<>>, exc |-> "none" ]

\* a loop that treats a RuntimeError of the attempt like any other failure
connect_with_retry_retries_runtime_error(p, ctor, font, took) ==
    LET t == p.now + took
        res == connect_attempt(ctor, font)
        p1 == [p EXCEPT !.now = t,
                        !.trace = Append(@, [op |-> "Pizzoo", res |-> res, at |-> t])]
    IN  IF res = "ok" THEN [p1 EXCEPT !.pc = "returned"]
        ELSE IF p1.deadline # None /\ t >= p1.deadline[1]
        THEN [p1 EXCEPT !.pc = "raised", !.exc = "RuntimeError"]
        ELSE [p1 EXCEPT !.now = t + pixoo_reconnect_seconds,
                        !.trace = Append(@, [op |-> "sleep", res |-> pixoo_reconnect_seconds,
                                             at |-> t])]

\* PixooClient.connect_with_retry, one iteration of `while True`
connect_with_retry_iteration(p, ctor, font, took) ==
    LET t == p.now + took
        res == connect_attempt(ctor, font)
        p1 == [p EXCEPT !.now = t,
                        !.trace = Append(@, [op |-> "Pizzoo", res |-> res, at |-> t])]
    IN  IF res = "ok" THEN [p1 EXCEPT !.pc = "returned"]
        ELSE IF res = "RuntimeError" THEN [p1 EXCEPT !.pc = "raised", !.exc = "RuntimeError"]
        ELSE IF p1.deadline # None /\ t >= p1.deadline[1]
        THEN [p1 EXCEPT !.pc = "raised", !.exc = "RuntimeError"]
        ELSE [p1 EXCEPT !.now = t + pixoo_reconnect_seconds,
                        !.trace = Append(@, [op |-> "sleep", res |-> pixoo_reconnect_seconds,
                                             at |-> t])]

Attempts(p) == { i \in DOMAIN p.trace : p.trace[i].op = "Pizzoo" }

InitConnect ==
    /\ ControllerParked /\ WeatherParked /\ FlightDataParked /\ SelectionParked /\ CanvasParked
    /\ pixoo = [ pc |-> "idle", fail_fast |-> FALSE, now |-> 0, deadline |-> None,
                 trace |-> <<>>, exc |-> "none" ]

\* run() / reconnect() call connect_with_retry
ConnectCall ==
    /\ pixoo.pc = "idle"
    /\ \E fail_fast \in BOOLEAN, now \in AttemptDurations :
          pixoo' = connect_with_retry_enter(fail_fast, now)
    /\ UNCHANGED <<ctlVars, weather, flightdata, selection, canvas>>

ConnectIteration ==
    /\ pixoo.pc = "loop"
    /\ Cardinality(Attempts(pixoo)) < MaxAttempts
    /\ \E ctor \in PizzooOutcomes, font \in FontOutcomes, took \in AttemptDurations :
          pixoo' = connect_with_retry_iteration(pixoo, ctor, font, took)
    /\ UNCHANGED <<ctlVars, weather, flightdata, selection, canvas>>

NextConnect == ConnectCall \/ ConnectIteration

SpecConnect == InitConnect /\ [][NextConnect]_vars

----------------------------------------------------------------------------
\* FlightData (flight_data.py): the provider cooldown, the recorded API error
\* and _find_closest.  The FlightRadar24 client and the clock are the
\* environment.  Strings that the code parses are sequences of characters.

\* config
API_RATE_LIMIT_COOLDOWN_SECONDS == 300

\* bounds of the environment: calls followed, and how far the clock moves
\* between two calls
MaxCalls == 3
ClockSteps == {1, API_RATE_LIMIT_COOLDOWN_SECONDS}

\* `sub in s`
StartsAt(sub, s, i) ==
    /\ i + Len(sub) - 1 <= Len(s)
    /\ \A k \in 1..Len(sub) : s[i + k - 1] = sub[k]
Contains(sub, s) == \E i \in 1..(Len(s) + 1) : StartsAt(sub, s, i)

Digits == {"0", "1", "2", "3", "4", "5", "6", "7", "8", "9"}
DigitValue == [ d \in Digits |->
    CASE d = "0" -> 0 [] d = "1" -> 1 [] d = "2" -> 2 [] d = "3" -> 3 [] d = "4" -> 4
      [] d = "5" -> 5 [] d = "6" -> 6 [] d = "7" -> 7 [] d = "8" -> 8 [] d = "9" -> 9 ]
Whitespace == {" ", "\t"}

\* the value of a run of decimal digits
RECURSIVE Decimal(_)
Decimal(ds) ==
    IF ds = <<>> THEN 0
    ELSE 10 * Decimal(SubSeq(ds, 1, Len(ds) - 1)) + DigitValue[ds[Len(ds)]]

\* first position at or after i that holds no whitespace / no digit
RECURSIVE SkipWhitespace(_, _)
SkipWhitespace(s, i) ==
    IF i <= Len(s) /\ s[i] \in Whitespace THEN SkipWhitespace(s, i + 1) ELSE i
RECURSIVE SkipDigits(_, _)
SkipDigits(s, i) ==
    IF i <= Len(s) /\ s[i] \in Digits THEN SkipDigits(s, i + 1) ELSE i

\* int(text): surrounding whitespace, an optional sign, decimal digits;
\* None stands for ValueError
RECURSIVE StripRight(_)
StripRight(s) ==
    IF s # <<>> /\ s[Len(s)] \in Whitespace THEN StripRight(SubSeq(s, 1, Len(s) - 1)) ELSE s
PyInt(text) ==
    LET s == StripRight(SubSeq(text, SkipWhitespace(text, 1), Len(text)))
        signed == s # <<>> /\ s[1] \in {"-", "+"}
        ds == IF signed THEN SubSeq(s, 2, Len(s)) ELSE s
    IN  IF ds = <<>> \/ \E k \in DOMAIN ds : ds[k] \notin Digits THEN None
        ELSE IF signed /\ s[1] = "-" THEN Some(0 - Decimal(ds))
        ELSE Some(Decimal(ds))

\* re.search(r"retry\s*after\s*(\d+)", text, flags=re.IGNORECASE): the number
\* of the leftmost match, None without a match
RetryAfterMatchAt(s, i) ==
    LET j == SkipWhitespace(s, i + 5)
        k == SkipWhitespace(s, j + 5)
    IN  /\ StartsAt(<<"r","e","t","r","y">>, s, i)
        /\ StartsAt(<<"a","f","t","e","r">>, s, j)
        /\ k <= Len(s)
        /\ s[k] \in Digits
RetryAfterSearch(text) ==
    LET s == lower(text)
        starts == { i \in 1..Len(s) : RetryAfterMatchAt(s, i) }
    IN  IF starts = {} THEN None
        ELSE LET i == CHOOSE m \in starts : \A n \in starts : m <= n
                 k == SkipWhitespace(s, SkipWhitespace(s, i + 5) + 5)
             IN  Some(Decimal(SubSeq(s, k, SkipDigits(s, k) - 1)))

\* exceptions the provider client raises: the attributes the code looks at
NoResponse == None
Response(status_code, retry_after) ==
    Some([status_code |-> status_code, retry_after |-> retry_after])
Exc(response, status_code, message) ==
    [response |-> response, status_code |-> status_code, message |-> message]
ProviderErrors == {
    Exc(NoResponse, None, <<"b","o","o","m">>),
    Exc(NoResponse, None, <<"H","T","T","P"," ","4","2","9">>),
    Exc(NoResponse, None, <<"4","2","9"," ","T","o","o"," ","M","a","n","y">>),
    Exc(NoResponse, None, <<"R","a","t","e"," ","L","i","m","i","t"," ","h","i","t">>),
    Exc(NoResponse, None, <<"t","o","o"," ","m","a","n","y"," ","r","e","q","u","e","s","t","s",","," ","r","e","t","r","y"," ","a","f","t","e","r"," ","0">>),
    Exc(NoResponse, Some(429), <<"R","e","t","r","y"," "," ","A","f","t","e","r","7">>),
    Exc(NoResponse, Some(500), <<"r","e","t","r","y"," ","a","f","t","e","r"," ","x">>),
    Exc(Response(Some(429), None), None, <<"b","o","o","m">>),
    Exc(Response(Some(429), Some(<<"1","2","0">>)), None, <<"b","o","o","m">>),
    Exc(Response(Some(429), Some(<<"0">>)), None, <<"b","o","o","m">>),
    Exc(Response(Some(429), Some(<<"-","5">>)), None, <<"b","o","o","m">>),
    Exc(Response(Some(429), Some(<<"s","o","o","n">>)), None, <<"p","l","e","a","s","e"," ","r","e","t","r","y"," ","a","f","t","e","r"," ","4","5","s">>),
    Exc(Response(Some(429), Some(<<>>)), None, <<"p","l","e","a","s","e"," ","r","e","t","r","y"," ","a","f","t","e","r"," ","4","5","s">>),
    Exc(Response(Some(500), Some(<<"1","2","0">>)), None, <<"b","o","o","m">>),
    Exc(Response(Some(503), Some(<<" ","3","0">>)), None, <<"R","a","t","e"," ","L","i","m","i","t"," ","h","i","t">>),
    Exc(Response(None, None), Some(429), <<"b","o","o","m">>) }

\* FlightData._extract_status_code
extract_status_code(exc) ==
    LET message == lower(exc.message)
    IN  IF exc.response # None /\ exc.response[1].status_code # None
        THEN exc.response[1].status_code
        ELSE IF exc.status_code # None THEN exc.status_code
        ELSE IF /\ Contains(<<"4","2","9">>, message)
                /\ Contains(<<"t","o","o"," ","m","a","n","y">>, message) \/ Contains(<<"r","a","t","e">>, message)
        THEN Some(429)
        ELSE None

\* a classification that knows the status code only
is_rate_limited_error_by_status_only(exc) == extract_status_code(exc) = Some(429)

\* FlightData._is_rate_limited_error
is_rate_limited_error(exc) ==
    \/ extract_status_code(exc) = Some(429)
    \/ Contains(<<"r","a","t","e"," ","l","i","m","i","t">>, lower(exc.message))
    \/ Contains(<<"t","o","o"," ","m","a","n","y"," ","r","e","q","u","e","s","t","s">>, lower(exc.message))

\* FlightData._extract_retry_after_seconds
extract_retry_after_seconds(exc) ==
    LET retry_after == IF exc.response = None THEN None ELSE exc.response[1].retry_after
        parsed == IF retry_after = None THEN None ELSE PyInt(retry_after[1])
        match == RetryAfterSearch(exc.message)
    IN  IF retry_after # None /\ retry_after[1] # <<>> /\ parsed # None
        THEN Max(1, parsed[1])
        ELSE IF match # None THEN Max(1, match[1])
        ELSE API_RATE_LIMIT_COOLDOWN_SECONDS

\* FlightData.get_api_cooldown_remaining
get_api_cooldown_remaining(fd) == Max(0, fd.api_cooldown_until - fd.now)

\* FlightData.get_last_api_error
get_last_api_error(fd) == fd.last_api_error

\* FlightData._set_api_cooldown
set_api_cooldown(fd, seconds, reason) ==
    [fd EXCEPT !.api_cooldown_until = fd.now + Max(1, seconds),
               !.last_api_error = Some(reason)]

\* attributes of a provider flight object as Python values: absent or None,
\* a number, or a text that float() rejects
Missing == [kind |-> "none", n |-> 0]
Num(n) == [kind |-> "num", n |-> n]
Text == [kind |-> "text", n |-> 0]

\* float(value or 0); None stands for TypeError / ValueError
float_or_zero(v) == IF v.kind = "text" THEN None ELSE Some(v.n)

\* a candidate: dist is what haversine makes of its coordinates seen from the
\* observer (km), None when the coordinates make haversine raise
Candidate(icao, airline_iata, altitude, ground_speed, heading, dist) ==
    [ icao |-> icao, airline_iata |-> airline_iata, altitude |-> altitude,
      ground_speed |-> ground_speed, heading |-> heading, dist |-> dist ]
Parked == Candidate("parked", Some("AB"), Num(0), Num(0), Num(10), Some(0))
Sunk == Candidate("sunk", Some("AB"), Num(0 - 100), Num(0), Num(10), Some(1))
Blank == Candidate("blank", Some("AB"), Missing, Missing, Missing, Some(1))
Taxiing == Candidate("taxiing", Some("AB"), Num(0), Num(15), Num(200), Some(1))
Rolling == Candidate("rolling", Some("AB"), Num(0), Num(15), Num(112), Some(2))
Private == Candidate("private", None, Num(1000), Num(250), Num(20), Some(0))
Garbled == Candidate("garbled", Some("AB"), Num(1000), Text, Num(20), Some(3))
Lost == Candidate("lost", Some("AB"), Num(1000), Num(250), Num(20), None)
AirborneMid == Candidate("mid", Some("AB"), Num(1000), Num(200), Num(110), Some(7))
AirborneFar == Candidate("far", Some("AB"), Num(1000), Num(250), Num(20), Some(15))
Candidates == { Parked, Sunk, Blank, Taxiing, Rolling, Private, Garbled, Lost,
                AirborneMid, AirborneFar }

\* FlightData.haversine on the observer and the candidate's coordinates
haversine(flight) == flight.dist

\* the loop of _find_closest that skips nothing for being parked
find_closest_scan_keeps_stationary(acc, flight, douts) ==
    LET altitude == float_or_zero(flight.altitude)
        ground_speed == float_or_zero(flight.ground_speed)
        dist == haversine(flight)
    IN  IF acc.broke \/ ~Truthy(flight.airline_iata) THEN acc
        ELSE IF dist = None THEN acc
        ELSE IF acc.min_dist # None /\ dist[1] >= acc.min_dist[1] THEN acc
        ELSE LET k == acc.ndetails + 1
                 a1 == [acc EXCEPT !.min_dist = dist, !.closest = Some(flight),
                                   !.ndetails = k,
                                   !.calls = Append(@, "get_flight_details")]
             IN  IF douts[k] = None
                 THEN [a1 EXCEPT !.details = Some(flight.icao)]
                 ELSE IF is_rate_limited_error(douts[k][1])
                 THEN [a1 EXCEPT !.fd = set_api_cooldown(@, extract_retry_after_seconds(douts[k][1]),
                                                         "Rate-limited while fetching flight details"),
                                 !.broke = TRUE]
                 ELSE [a1 EXCEPT !.fd.last_api_error = Some("Flight details error"),
                                 !.details = None]

\* FlightData._find_closest, one pass of `for flight in flights`
find_closest_scan(acc, flight, douts) ==
    LET altitude == float_or_zero(flight.altitude)
        ground_speed == float_or_zero(flight.ground_speed)
        stationary == IF altitude = None \/ ground_speed = None THEN TRUE
                      ELSE altitude[1] <= 0 /\ ground_speed[1] <= 0
        dist == haversine(flight)
    IN  IF acc.broke \/ ~Truthy(flight.airline_iata) THEN acc
        ELSE IF stationary THEN acc
        ELSE IF dist = None THEN acc
        ELSE IF acc.min_dist # None /\ dist[1] >= acc.min_dist[1] THEN acc
        ELSE LET k == acc.ndetails + 1
                 a1 == [acc EXCEPT !.min_dist = dist, !.closest = Some(flight),
                                   !.ndetails = k,
                                   !.calls = Append(@, "get_flight_details")]
             IN  IF douts[k] = None
                 THEN [a1 EXCEPT !.details = Some(flight.icao)]
                 ELSE IF is_rate_limited_error(douts[k][1])
                 THEN [a1 EXCEPT !.fd = set_api_cooldown(@, extract_retry_after_seconds(douts[k][1]),
                                                         "Rate-limited while fetching flight details"),
                                 !.broke = TRUE]
                 ELSE [a1 EXCEPT !.fd.last_api_error = Some("Flight details error"),
                                 !.details = None]

RECURSIVE find_closest_loop(_, _, _)
find_closest_loop(acc, flights, douts) ==
    IF flights = <<>> THEN acc
    ELSE find_closest_loop(find_closest_scan(acc, Head(flights), douts), Tail(flights), douts)

\* what a call of _find_closest leaves: the object, the returned pair, and the
\* calls made on the provider client
Found(fd, closest, details, made) ==
    [fd |-> fd, closest |-> closest, details |-> details, calls |-> made]

\* _find_closest that asks the provider whether or not a cooldown is active
find_closest_ignores_cooldown(fd, list_exc, flights, douts) ==
    IF list_exc # None
    THEN Found(IF is_rate_limited_error(list_exc[1])
               THEN set_api_cooldown(fd, extract_retry_after_seconds(list_exc[1]),
                                     "Rate-limited while fetching flights")
               ELSE [fd EXCEPT !.last_api_error = Some("Flight fetch error")],
               None, None, <<"get_bounds_by_point", "get_flights">>)
    ELSE IF flights = <<>>
    THEN Found(fd, None, None, <<"get_bounds_by_point", "get_flights">>)
    ELSE LET acc == find_closest_loop(
                        [ fd |-> [fd EXCEPT !.last_api_error = None], closest |-> None,
                          min_dist |-> None, details |-> None, ndetails |-> 0, broke |-> FALSE,
                          calls |-> <<"get_bounds_by_point", "get_flights">> ],
                        flights, douts)
         IN  Found(acc.fd, acc.closest, acc.details, acc.calls)

\* FlightData._find_closest
find_closest(fd, list_exc, flights, douts) ==
    IF get_api_cooldown_remaining(fd) > 0 THEN Found(fd, None, None, <<>>)
    ELSE IF list_exc # None
    THEN Found(IF is_rate_limited_error(list_exc[1])
               THEN set_api_cooldown(fd, extract_retry_after_seconds(list_exc[1]),
                                     "Rate-limited while fetching flights")
               ELSE [fd EXCEPT !.last_api_error = Some("Flight fetch error")],
               None, None, <<"get_bounds_by_point", "get_flights">>)
    ELSE IF flights = <<>>
    THEN Found(fd, None, None, <<"get_bounds_by_point", "get_flights">>)
    ELSE LET acc == find_closest_loop(
                        [ fd |-> [fd EXCEPT !.last_api_error = None], closest |-> None,
                          min_dist |-> None, details |-> None, ndetails |-> 0, broke |-> FALSE,
                          calls |-> <<"get_bounds_by_point", "get_flights">> ],
                        flights, douts)
         IN  Found(acc.fd, acc.closest, acc.details, acc.calls)

\* the environment of the FlightData specification
PolledLists == { <<>>, <<Parked>>, <<AirborneMid>>, <<Parked, AirborneFar>>,
                 <<AirborneFar, AirborneMid>> }
DetailsErrors == { Exc(NoResponse, None, <<"b","o","o","m">>),
                   Exc(Response(Some(429), Some(<<"1","2","0">>)), None, <<"b","o","o","m">>) }
DetailsOutcomes == { None } \cup { Some(e) : e \in DetailsErrors }
MaxDetailsCalls == 2

\* FlightData.__init__
NewFlightData(now) == [ now |-> now, api_cooldown_until |-> 0, last_api_error |-> None ]
NoCall == [ called |-> FALSE, ncalls |-> 0 ]

InitFlightData ==
    /\ ControllerParked /\ ClientParked /\ WeatherParked /\ SelectionParked /\ CanvasParked
    /\ flightdata = [ obj |-> NewFlightData(0), last |-> NoCall ]

\* one _find_closest call, `step` seconds after the previous one
Called(step, list_exc, flights, douts) ==
    LET fd == [flightdata.obj EXCEPT !.now = @ + step]
        found == find_closest(fd, list_exc, flights, douts)
    IN  [ obj |-> found.fd,
          last |-> [ called |-> TRUE, ncalls |-> flightdata.last.ncalls + 1,
                     before |-> fd, list_exc |-> list_exc,
                     flights |-> flights, closest |-> found.closest,
                     details |-> found.details, calls |-> found.calls,
                     douts |-> douts ] ]

\* the flight-list fetch raises
FindClosestListFails ==
    /\ flightdata.last.ncalls < MaxCalls
    /\ \E step \in ClockSteps, exc \in ProviderErrors :
          flightdata' = Called(step, Some(exc), <<>>, [k \in 1..MaxDetailsCalls |-> None])
    /\ UNCHANGED <<ctlVars, pixoo, weather, selection, canvas>>

\* the flight-list fetch returns a list
FindClosestListArrives ==
    /\ flightdata.last.ncalls < MaxCalls
    /\ \E step \in ClockSteps, flights \in PolledLists,
          douts \in [1..MaxDetailsCalls -> DetailsOutcomes] :
          flightdata' = Called(step, None, flights, douts)
    /\ UNCHANGED <<ctlVars, pixoo, weather, selection, canvas>>

NextFlightData == FindClosestListFails \/ FindClosestListArrives

SpecFlightData == InitFlightData /\ [][NextFlightData]_vars

----------------------------------------------------------------------------
\* WeatherData (weather_data.py): the snapshot cache with its TTL.  The
\* Open-Meteo provider, the METAR fetcher with its parser and the clock are
\* the environment.

\* the floor __init__ puts under refresh_seconds
MinRefreshSeconds == 30

\* bounds of the environment: calls followed; configured refresh_seconds and
\* clock steps are chosen around the floor so that ages meet the TTL exactly
MaxWeatherCalls == 3
RefreshSettings == {MinRefreshSeconds - 20, MinRefreshSeconds + 1}
WeatherClockSteps == {1, MinRefreshSeconds - 1, MinRefreshSeconds}

\* what self.provider(lat, lon) does: returns a dict with or without a
\* condition, returns None, or raises (str(exc) may be empty)
ProviderResults == { [kind |-> "dict", condition |-> Some("CLEAR")],
                     [kind |-> "dict", condition |-> Some("RAIN")],
                     [kind |-> "dict", condition |-> None],
                     [kind |-> "raise", message |-> "timeout"],
                     [kind |-> "raise", message |-> ""] }

\* what metar_parser makes of a fetched report
MetarFields(temperature_c, dewpoint_c, wind_speed_kph, wind_dir_deg, location) ==
    [ temperature_c |-> temperature_c, dewpoint_c |-> dewpoint_c,
      wind_speed_kph |-> wind_speed_kph, wind_dir_deg |-> wind_dir_deg,
      location |-> location ]
NoMetarFields == MetarFields(None, None, None, None, None)

\* what self.metar_fetcher(icao) does: a report (given by its parsed fields),
\* nothing, or an exception
MetarResults == { [kind |-> "report",
                   fields |-> MetarFields(Some(20), Some(10), Some(22), Some(270), Some("LCPH"))],
                  [kind |-> "report", fields |-> NoMetarFields],
                  [kind |-> "raise", message |-> "unreachable"] }
NotFetched == [kind |-> "none"]

\* WeatherData._relative_humidity_from_temp_dewpoint, in tenths of a percent,
\* on the values the reports above carry
relative_humidity_from_temp_dewpoint(temp_c, dewpoint_c) ==
    IF temp_c = None \/ dewpoint_c = None THEN None
    ELSE IF dewpoint_c[1] >= temp_c[1] THEN Some(1000)
    ELSE IF temp_c[1] = 20 /\ dewpoint_c[1] = 10 THEN Some(525)
    ELSE Some(0)

\* WeatherData.__init__
NewWeatherData(refresh_seconds, metar_icao) ==
    [ refresh_seconds |-> Max(MinRefreshSeconds, refresh_seconds), metar_icao |-> metar_icao,
      cache |-> None, cache_at |-> 0, last_error |-> None ]

\* WeatherData._fallback_payload
fallback_payload ==
    [ temperature_c |-> None, condition |-> Some("SET PROVIDER"), humidity_pct |-> None,
      wind_kph |-> None, wind_dir_deg |-> None, location |-> "LOCAL WX",
      source |-> "scaffold" ]

\* WeatherData._fetch_raw: the object with _last_error set, the raw dict, and
\* the RuntimeError raised when both sources failed
fetch_raw(w, provided, metar) ==
    LET provider_error == IF provided.kind = "raise" THEN Some(provided.message) ELSE None
        fetched == IF w.metar_icao THEN metar ELSE NotFetched
        metar_error == IF fetched.kind = "raise" THEN Some(fetched.message) ELSE None
        made == IF w.metar_icao THEN <<"provider", "metar_fetcher">> ELSE <<"provider">>
    IN  IF Truthy(provider_error) /\ Truthy(metar_error)
        THEN [ w |-> [w EXCEPT !.last_error = None], raised |-> TRUE, made |-> made,
               open_meteo |-> None, metar |-> NotFetched ]
        ELSE [ w |-> [w EXCEPT !.last_error =
                          IF Truthy(provider_error) THEN Some("Open-Meteo error")
                          ELSE IF Truthy(metar_error) THEN Some("METAR error")
                          ELSE None],
               raised |-> FALSE, made |-> made,
               open_meteo |-> IF provided.kind = "dict" THEN Some(provided) ELSE None,
               metar |-> IF fetched.kind = "report" THEN fetched ELSE NotFetched ]

\* WeatherData._normalize (None when there is nothing to show)
normalize(raw) ==
    LET condition == IF raw.open_meteo = None THEN None ELSE raw.open_meteo[1].condition
        metar_fields == IF raw.metar.kind = "report" THEN raw.metar.fields ELSE NoMetarFields
        temp_c == metar_fields.temperature_c
        humidity_pct == relative_humidity_from_temp_dewpoint(temp_c, metar_fields.dewpoint_c)
        wind_kph == metar_fields.wind_speed_kph
    IN  IF condition = None /\ temp_c = None /\ humidity_pct = None /\ wind_kph = None
        THEN None
        ELSE Some([ temperature_c |-> temp_c, condition |-> condition,
                    humidity_pct |-> humidity_pct, wind_kph |-> wind_kph,
                    wind_dir_deg |-> metar_fields.wind_dir_deg,
                    location |-> IF Truthy(metar_fields.location)
                                 THEN metar_fields.location[1] ELSE "LOCAL WX",
                    source |-> IF temp_c # None \/ humidity_pct # None \/ wind_kph # None
                               THEN IF condition # None THEN "metar+open-meteo" ELSE "metar"
                               ELSE "open-meteo" ])

\* what a call returns: the object, the (payload, refreshed) pair, and the
\* calls made on the sources
Answer(w, payload, refreshed, made) ==
    [w |-> w, payload |-> payload, refreshed |-> refreshed, made |-> made]

\* a cache test that still trusts a snapshot whose age is the TTL
cache_is_fresh_at_ttl(w, now) ==
    w.cache # None /\ (now - w.cache_at) <= w.refresh_seconds

\* get_current_with_options, the cache test of its first `if`
cache_is_fresh(w, now) ==
    w.cache # None /\ (now - w.cache_at) < w.refresh_seconds

\* an end of a failed refresh that reports the kept snapshot as refreshed
after_failed_refresh_reports_refreshed(w, now, made) ==
    IF w.cache # None THEN Answer(w, w.cache[1], TRUE, made)
    ELSE Answer([w EXCEPT !.cache = Some(fallback_payload), !.cache_at = now],
                fallback_payload, TRUE, made)

\* an end of a failed refresh that hands out the fallback without keeping it
after_failed_refresh_forgets_fallback(w, now, made) ==
    IF w.cache # None THEN Answer(w, w.cache[1], FALSE, made)
    ELSE Answer(w, fallback_payload, TRUE, made)

\* an end of a failed refresh that restarts the age of the kept snapshot
after_failed_refresh_restarts_ttl(w, now, made) ==
    IF w.cache # None THEN Answer([w EXCEPT !.cache_at = now], w.cache[1], FALSE, made)
    ELSE Answer([w EXCEPT !.cache = Some(fallback_payload), !.cache_at = now],
                fallback_payload, TRUE, made)

\* get_current_with_options after a refresh that produced no payload
after_failed_refresh(w, now, made) ==
    IF w.cache # None THEN Answer(w, w.cache[1], FALSE, made)
    ELSE Answer([w EXCEPT !.cache = Some(fallback_payload), !.cache_at = now],
                fallback_payload, TRUE, made)

\* get_current_with_options that looks at the cache even when forced
get_current_with_options_never_forced(w, now, force_refresh, provided, metar) ==
    IF cache_is_fresh(w, now) THEN Answer(w, w.cache[1], FALSE, <<>>)
    ELSE LET raw == fetch_raw(w, provided, metar)
             payload == IF raw.raised THEN None ELSE normalize(raw)
         IN  IF raw.raised
             THEN after_failed_refresh([raw.w EXCEPT !.last_error = Some("Weather provider error")],
                                       now, raw.made)
             ELSE IF payload # None
             THEN Answer([raw.w EXCEPT !.cache = payload, !.cache_at = now],
                         payload[1], TRUE, raw.made)
             ELSE after_failed_refresh(
                      [raw.w EXCEPT !.last_error = Some("Weather provider returned no data")],
                      now, raw.made)

\* WeatherData.get_current_with_options
get_current_with_options(w, now, force_refresh, provided, metar) ==
    IF ~force_refresh /\ cache_is_fresh(w, now) THEN Answer(w, w.cache[1], FALSE, <<>>)
    ELSE LET raw == fetch_raw(w, provided, metar)
             payload == IF raw.raised THEN None ELSE normalize(raw)
         IN  IF raw.raised
             THEN after_failed_refresh([raw.w EXCEPT !.last_error = Some("Weather provider error")],
                                       now, raw.made)
             ELSE IF payload # None
             THEN Answer([raw.w EXCEPT !.cache = payload, !.cache_at = now],
                         payload[1], TRUE, raw.made)
             ELSE after_failed_refresh(
                      [raw.w EXCEPT !.last_error = Some("Weather provider returned no data")],
                      now, raw.made)

\* WeatherData.get_current
get_current(w, now, provided, metar) == get_current_with_options(w, now, FALSE, provided, metar)

\* WeatherData.get_last_error
get_last_error(w) == w.last_error

\* a call `step` seconds after the previous one, and what it found and left
Asked(op, step, force_refresh, answer) ==
    [ obj |-> answer.w, now |-> weather.now + step, configured |-> weather.configured,
      last |-> [ op |-> op, ncalls |-> weather.last.ncalls + 1, before |-> weather.obj,
                 force_refresh |-> force_refresh, payload |-> Some(answer.payload),
                 refreshed |-> answer.refreshed, made |-> answer.made ] ]

InitWeather ==
    /\ ControllerParked /\ ClientParked /\ FlightDataParked /\ SelectionParked /\ CanvasParked
    /\ \E refresh_seconds \in RefreshSettings, metar_icao \in BOOLEAN :
          weather = [ obj |-> NewWeatherData(refresh_seconds, metar_icao), now |-> 0,
                      configured |-> refresh_seconds,
                      last |-> [ op |-> "none", ncalls |-> 0 ] ]

GetCurrent ==
    /\ weather.last.ncalls < MaxWeatherCalls
    /\ \E step \in WeatherClockSteps, provided \in ProviderResults, metar \in MetarResults :
          weather' = Asked("get_current", step, FALSE,
                           get_current(weather.obj, weather.now + step, provided, metar))
    /\ UNCHANGED <<ctlVars, pixoo, flightdata, selection, canvas>>

GetCurrentWithOptions ==
    /\ weather.last.ncalls < MaxWeatherCalls
    /\ \E step \in WeatherClockSteps, force_refresh \in BOOLEAN,
          provided \in ProviderResults, metar \in MetarResults :
          weather' = Asked("get_current_with_options", step, force_refresh,
                           get_current_with_options(weather.obj, weather.now + step,
                                                    force_refresh, provided, metar))
    /\ UNCHANGED <<ctlVars, pixoo, flightdata, selection, canvas>>

NextWeather == GetCurrent \/ GetCurrentWithOptions

SpecWeather == InitWeather /\ [][NextWeather]_vars

----------------------------------------------------------------------------
\* Candidate selection: choose_closest_flight (pixoo_radar/flight/filters.py)
\* and FlightData._find_closest, applied to one candidate list.  Headings are
\* whole degrees.

\* config, and the default of alignment_tolerance_deg
RUNWAY_HEADING_DEG == 110
alignment_tolerance_default == 10

\* bound of the environment: candidates in a list
MaxCandidates == 2

\* filters.has_airline_info
has_airline_info(flight) == Truthy(flight.airline_iata)

\* filters._to_float(value or 0, default=0.0)
to_float_or_zero(v) == IF v.kind = "num" THEN v.n ELSE 0

\* filters._to_float(value, default) for a default that is a number
to_float(v, default) == IF v.kind = "num" THEN v.n ELSE default

\* filters._normalize_heading_deg; None for a missing or non-numeric heading
normalize_heading_deg(v) == IF v.kind = "num" THEN Some(v.n % 360) ELSE None

\* filters.heading_diff_deg
heading_diff_deg(a, b) ==
    LET d == ((a - b + 180) % 360) - 180
    IN  IF d < 0 THEN 0 - d ELSE d

\* filters.is_ground_target
is_ground_target(flight) == to_float_or_zero(flight.altitude) <= 0

\* filters.is_stationary_ground_target
is_stationary_ground_target(flight) ==
    IF ~is_ground_target(flight) THEN FALSE
    ELSE to_float_or_zero(flight.ground_speed) <= 0

\* is_taxiing_ground_target whose tolerance is exclusive
is_taxiing_ground_target_exclusive(flight, runway_heading_deg, alignment_tolerance_deg) ==
    IF ~is_ground_target(flight) THEN FALSE
    ELSE IF to_float_or_zero(flight.ground_speed) <= 0 THEN FALSE
    ELSE LET heading == normalize_heading_deg(flight.heading)
             runway_heading == normalize_heading_deg(Num(runway_heading_deg))
         IN  IF heading = None \/ runway_heading = None THEN TRUE
             ELSE LET reciprocal_heading == (runway_heading[1] + 180) % 360
                      tolerance == Max(0, to_float(alignment_tolerance_deg,
                                                   alignment_tolerance_default))
                      aligned ==
                          \/ heading_diff_deg(heading[1], runway_heading[1]) < tolerance
                          \/ heading_diff_deg(heading[1], reciprocal_heading) < tolerance
                  IN  ~aligned

\* filters.is_taxiing_ground_target
is_taxiing_ground_target(flight, runway_heading_deg, alignment_tolerance_deg) ==
    IF ~is_ground_target(flight) THEN FALSE
    ELSE IF to_float_or_zero(flight.ground_speed) <= 0 THEN FALSE
    ELSE LET heading == normalize_heading_deg(flight.heading)
             runway_heading == normalize_heading_deg(Num(runway_heading_deg))
         IN  IF heading = None \/ runway_heading = None THEN TRUE
             ELSE LET reciprocal_heading == (runway_heading[1] + 180) % 360
                      tolerance == Max(0, to_float(alignment_tolerance_deg,
                                                   alignment_tolerance_default))
                      aligned ==
                          \/ heading_diff_deg(heading[1], runway_heading[1]) <= tolerance
                          \/ heading_diff_deg(heading[1], reciprocal_heading) <= tolerance
                  IN  ~aligned

\* filters.haversine_km on the observer and the candidate's coordinates
haversine_km(flight) == flight.dist

\* the pass of choose_closest_flight that lets an equally distant later
\* candidate replace the one held
choose_closest_scan_last_of_equals(acc, flight, runway_heading_deg, alignment_tolerance_deg) ==
    LET a0 == [acc EXCEPT !.stats.total = @ + 1]
        dist == haversine_km(flight)
    IN  IF ~has_airline_info(flight) THEN [a0 EXCEPT !.stats.missing_airline = @ + 1]
        ELSE IF is_stationary_ground_target(flight)
        THEN [a0 EXCEPT !.stats.stationary_ground = @ + 1]
        ELSE IF is_taxiing_ground_target(flight, runway_heading_deg, alignment_tolerance_deg)
        THEN [a0 EXCEPT !.stats.taxiing_ground = @ + 1]
        ELSE LET a1 == [a0 EXCEPT !.stats.usable = @ + 1]
             IN  IF dist = None THEN [a1 EXCEPT !.stats.distance_error = @ + 1]
                 ELSE IF a1.min_dist = None \/ dist[1] <= a1.min_dist[1]
                 THEN [a1 EXCEPT !.min_dist = dist, !.closest_flight = Some(flight)]
                 ELSE a1

\* the pass of choose_closest_flight for which a failed distance ends the
\* selection with nothing selected
choose_closest_scan_error_aborts(acc, flight, runway_heading_deg, alignment_tolerance_deg) ==
    LET a0 == [acc EXCEPT !.stats.total = @ + 1]
        dist == haversine_km(flight)
    IN  IF ~has_airline_info(flight) THEN [a0 EXCEPT !.stats.missing_airline = @ + 1]
        ELSE IF is_stationary_ground_target(flight)
        THEN [a0 EXCEPT !.stats.stationary_ground = @ + 1]
        ELSE IF is_taxiing_ground_target(flight, runway_heading_deg, alignment_tolerance_deg)
        THEN [a0 EXCEPT !.stats.taxiing_ground = @ + 1]
        ELSE LET a1 == [a0 EXCEPT !.stats.usable = @ + 1]
             IN  IF dist = None
                 THEN [a1 EXCEPT !.stats.distance_error = @ + 1,
                                 !.min_dist = None, !.closest_flight = None]
                 ELSE IF a1.min_dist = None \/ dist[1] < a1.min_dist[1]
                 THEN [a1 EXCEPT !.min_dist = dist, !.closest_flight = Some(flight)]
                 ELSE a1

\* the pass of choose_closest_flight that counts a candidate as usable only
\* once its distance is known
choose_closest_scan_usable_after_distance(acc, flight, runway_heading_deg, alignment_tolerance_deg) ==
    LET a0 == [acc EXCEPT !.stats.total = @ + 1]
        dist == haversine_km(flight)
    IN  IF ~has_airline_info(flight) THEN [a0 EXCEPT !.stats.missing_airline = @ + 1]
        ELSE IF is_stationary_ground_target(flight)
        THEN [a0 EXCEPT !.stats.stationary_ground = @ + 1]
        ELSE IF is_taxiing_ground_target(flight, runway_heading_deg, alignment_tolerance_deg)
        THEN [a0 EXCEPT !.stats.taxiing_ground = @ + 1]
        ELSE IF dist = None THEN [a0 EXCEPT !.stats.distance_error = @ + 1]
        ELSE LET a1 == [a0 EXCEPT !.stats.usable = @ + 1]
             IN  IF a1.min_dist = None \/ dist[1] < a1.min_dist[1]
                 THEN [a1 EXCEPT !.min_dist = dist, !.closest_flight = Some(flight)]
                 ELSE a1

\* choose_closest_flight, one pass of `for flight in flights`
choose_closest_scan(acc, flight, runway_heading_deg, alignment_tolerance_deg) ==
    LET a0 == [acc EXCEPT !.stats.total = @ + 1]
        dist == haversine_km(flight)
    IN  IF ~has_airline_info(flight) THEN [a0 EXCEPT !.stats.missing_airline = @ + 1]
        ELSE IF is_stationary_ground_target(flight)
        THEN [a0 EXCEPT !.stats.stationary_ground = @ + 1]
        ELSE IF is_taxiing_ground_target(flight, runway_heading_deg, alignment_tolerance_deg)
        THEN [a0 EXCEPT !.stats.taxiing_ground = @ + 1]
        ELSE LET a1 == [a0 EXCEPT !.stats.usable = @ + 1]
             IN  IF dist = None THEN [a1 EXCEPT !.stats.distance_error = @ + 1]
                 ELSE IF a1.min_dist = None \/ dist[1] < a1.min_dist[1]
                 THEN [a1 EXCEPT !.min_dist = dist, !.closest_flight = Some(flight)]
                 ELSE a1

RECURSIVE choose_closest_loop(_, _, _, _)
choose_closest_loop(acc, flights, runway_heading_deg, alignment_tolerance_deg) ==
    IF flights = <<>> THEN acc
    ELSE choose_closest_loop(
             choose_closest_scan(acc, Head(flights), runway_heading_deg, alignment_tolerance_deg),
             Tail(flights), runway_heading_deg, alignment_tolerance_deg)

\* filters.choose_closest_flight(..., return_stats=True)
choose_closest_flight(flights, runway_heading_deg, alignment_tolerance_deg) ==
    LET acc == choose_closest_loop(
                   [ closest_flight |-> None, min_dist |-> None,
                     stats |-> [ total |-> 0, missing_airline |-> 0, stationary_ground |-> 0,
                                 taxiing_ground |-> 0, distance_error |-> 0, usable |-> 0 ] ],
                   flights, runway_heading_deg, alignment_tolerance_deg)
    IN  [ closest_flight |-> acc.closest_flight,
          stats |-> acc.stats,
          selected_distance_km |-> IF acc.closest_flight # None THEN acc.min_dist ELSE None ]

\* candidates that move on the ground, by what their heading attribute holds
GroundMover(icao, heading) ==
    Candidate(icao, Some("AB"), Num(0), Num(15), heading, Some(1))
GroundMovers ==
    { GroundMover("h120", Num(120)), GroundMover("h121", Num(121)),
      GroundMover("h99", Num(99)), GroundMover("h300", Num(300)),
      GroundMover("h301", Num(301)), GroundMover("h355", Num(355)),
      GroundMover("h354", Num(354)), GroundMover("h470", Num(470)),
      GroundMover("h-250", Num(0 - 250)), GroundMover("hnone", Missing),
      GroundMover("htext", Text) }
SelectCandidates == Candidates \cup GroundMovers

\* the candidate lists tried
RECURSIVE ListsUpTo(_)
ListsUpTo(n) ==
    IF n = 0 THEN { <<>> }
    ELSE ListsUpTo(n - 1) \cup { Append(l, c) : l \in ListsUpTo(n - 1), c \in SelectCandidates }
CandidateLists == ListsUpTo(MaxCandidates)

\* the runway headings and alignment tolerances tried: the configured heading
\* and one next to north; no tolerance, the default, and an argument that
\* float() rejects
RunwayHeadings == { RUNWAY_HEADING_DEG, 5 }
Tolerances == { Num(0), Num(alignment_tolerance_default), Missing }

NotRun == <<>>

InitSelect ==
    /\ ControllerParked /\ ClientParked /\ WeatherParked /\ FlightDataParked /\ CanvasParked
    /\ \E flights \in CandidateLists, runway \in RunwayHeadings, tol \in Tolerances :
          selection = [ flights |-> flights, runway_heading_deg |-> runway,
                        alignment_tolerance_deg |-> tol,
                        chosen |-> NotRun, found |-> NotRun ]

\* choose_closest_flight on the list
ChooseClosestFlight ==
    /\ selection.chosen = NotRun
    /\ selection' = [selection EXCEPT !.chosen =
           Some(choose_closest_flight(selection.flights, selection.runway_heading_deg,
                                      selection.alignment_tolerance_deg))]
    /\ UNCHANGED <<ctlVars, pixoo, weather, flightdata, canvas>>

\* _find_closest of a new FlightData whose provider returns the list
FindClosestOfList ==
    /\ selection.found = NotRun
    /\ selection' = [selection EXCEPT !.found =
           Some(find_closest(NewFlightData(0), None, selection.flights,
                             [k \in 1..Len(selection.flights) |-> None]))]
    /\ UNCHANGED <<ctlVars, pixoo, weather, flightdata, canvas>>

NextSelect == ChooseClosestFlight \/ FindClosestOfList

SpecSelect == InitSelect /\ [][NextSelect]_vars

----------------------------------------------------------------------------
\* Wind and runway directions of the weather view
\* (pixoo_radar/render/weather_view.py, pixoo_radar/render/common.py), in
\* whole degrees.

\* bound of the environment: wind directions are tried from -360 up to
\* (not including) this many full turns
MaxWindTurns == 2

Abs(x) == IF x < 0 THEN 0 - x ELSE x

\* common.signed_angle_diff_deg
signed_angle_diff_deg(angle_a, angle_b) == ((angle_a - angle_b + 180) % 360) - 180

\* weather_view.normalize_wind_dir_deg; None for None and for what float() rejects
normalize_wind_dir_deg(wind_dir_deg) ==
    IF wind_dir_deg.kind = "none" THEN None
    ELSE IF wind_dir_deg.kind = "text" THEN None
    ELSE Some(wind_dir_deg.n % 360)

\* range(0, 360, 10)
tick_bearings == [i \in 1..36 |-> (i - 1) * 10]

\* min(tick_bearings, key=...): the first of the bearings with the least key
RECURSIVE min_by_diff(_, _, _)
min_by_diff(bearings, best, wind_dir) ==
    IF bearings = <<>> THEN best
    ELSE LET b == Head(bearings)
         IN  IF Abs(signed_angle_diff_deg(wind_dir, b)) < Abs(signed_angle_diff_deg(wind_dir, best))
             THEN min_by_diff(Tail(bearings), b, wind_dir)
             ELSE min_by_diff(Tail(bearings), best, wind_dir)

\* nearest_drawn_tick_bearing that takes the tick below the direction
nearest_drawn_tick_bearing_below(wind_dir_deg) ==
    LET wind_dir == normalize_wind_dir_deg(wind_dir_deg)
    IN  IF wind_dir = None THEN None
        ELSE Some(wind_dir[1] - (wind_dir[1] % 10))

\* weather_view.nearest_drawn_tick_bearing
nearest_drawn_tick_bearing(wind_dir_deg) ==
    LET wind_dir == normalize_wind_dir_deg(wind_dir_deg)
    IN  IF wind_dir = None THEN None
        ELSE Some(min_by_diff(Tail(tick_bearings), Head(tick_bearings), wind_dir[1]))

\* resolve_active_runway_heading that gives a tie to the reciprocal
resolve_active_runway_heading_tie_to_reciprocal(wind_dir_deg, runway_heading_deg) ==
    LET wind_from == normalize_wind_dir_deg(wind_dir_deg)
    IN  IF wind_from = None THEN None
        ELSE LET reciprocal_heading == (runway_heading_deg + 180) % 360
                 diff_base == Abs(signed_angle_diff_deg(wind_from[1], runway_heading_deg))
                 diff_recip == Abs(signed_angle_diff_deg(wind_from[1], reciprocal_heading))
             IN  Some(IF diff_base < diff_recip THEN runway_heading_deg
                      ELSE reciprocal_heading)

\* weather_view.resolve_active_runway_heading
resolve_active_runway_heading(wind_dir_deg, runway_heading_deg) ==
    LET wind_from == normalize_wind_dir_deg(wind_dir_deg)
    IN  IF wind_from = None THEN None
        ELSE LET reciprocal_heading == (runway_heading_deg + 180) % 360
                 diff_base == Abs(signed_angle_diff_deg(wind_from[1], runway_heading_deg))
                 diff_recip == Abs(signed_angle_diff_deg(wind_from[1], reciprocal_heading))
             IN  Some(IF diff_base <= diff_recip THEN runway_heading_deg
                      ELSE reciprocal_heading)

\* the wind directions a weather payload can hold, and the runway headings
\* that validate_settings accepts, tried
WindDirections ==
    { Missing, Text } \cup { Num(d) : d \in (0 - 360)..(360 * MaxWindTurns - 1) }
BaseHeadings == { 0, 5, 90, RUNWAY_HEADING_DEG, 180, 270, 290, 359 }

InitDirections ==
    /\ ControllerParked /\ ClientParked /\ WeatherParked /\ FlightDataParked
    /\ SelectionParked
    /\ \E wind \in WindDirections, heading \in BaseHeadings :
          canvas = [ wind_dir_deg |-> wind, runway_heading_deg |-> heading,
                     active_heading |-> NotRun, tick |-> NotRun ]

\* resolve_active_runway_heading(wind_dir_deg, runway_heading_deg)
ResolveActiveRunwayHeading ==
    /\ canvas.active_heading = NotRun
    /\ canvas' = [canvas EXCEPT !.active_heading =
           Some(resolve_active_runway_heading(canvas.wind_dir_deg, canvas.runway_heading_deg))]
    /\ UNCHANGED <<ctlVars, pixoo, weather, flightdata, selection>>

\* nearest_drawn_tick_bearing(wind_dir_deg)
NearestDrawnTickBearing ==
    /\ canvas.tick = NotRun
    /\ canvas' = [canvas EXCEPT !.tick = Some(nearest_drawn_tick_bearing(canvas.wind_dir_deg))]
    /\ UNCHANGED <<ctlVars, pixoo, weather, flightdata, selection>>

NextDirections == ResolveActiveRunwayHeading \/ NearestDrawnTickBearing

SpecDirections == InitDirections /\ [][NextDirections]_vars

----------------------------------------------------------------------------
\* Label placement of the runway view (pixoo_radar/render/weather_view.py).
\* Floats are fixed-point numbers: a float x is the integer x * Scale.  Pixel
\* coordinates, label sizes and offsets are plain integers.

Scale == 10^6

\* math.sin of 0..90 degrees, times Scale
SinTable ==
   << 0, 17452, 34899, 52336, 69756, 87156, 104528, 121869,
      139173, 156434, 173648, 190809, 207912, 224951, 241922, 258819,
      275637, 292372, 309017, 325568, 342020, 358368, 374607, 390731,
      406737, 422618, 438371, 453990, 469472, 484810, 500000, 515038,
      529919, 544639, 559193, 573576, 587785, 601815, 615661, 629320,
      642788, 656059, 669131, 681998, 694658, 707107, 719340, 731354,
      743145, 754710, 766044, 777146, 788011, 798636, 809017, 819152,
      829038, 838671, 848048, 857167, 866025, 874620, 882948, 891007,
      898794, 906308, 913545, 920505, 927184, 933580, 939693, 945519,
      951057, 956305, 961262, 965926, 970296, 974370, 978148, 981627,
      984808, 987688, 990268, 992546, 994522, 996195, 997564, 998630,
      999391, 999848, 1000000 >>

\* math.sin(math.radians(d)) and math.cos(math.radians(d)) for whole degrees
Sin(d) ==
    LET r == d % 360
    IN  IF r <= 90 THEN SinTable[r + 1]
        ELSE IF r <= 180 THEN SinTable[180 - r + 1]
        ELSE IF r <= 270 THEN 0 - SinTable[r - 180 + 1]
        ELSE 0 - SinTable[360 - r + 1]
Cos(d) == Sin(d + 90)

\* int(round(x)): to the nearest integer, an exact half to the even one
int_round(x) ==
    LET q == x \div Scale
        r == x % Scale
    IN  IF 2 * r < Scale THEN q
        ELSE IF 2 * r > Scale THEN q + 1
        ELSE IF q % 2 = 0 THEN q ELSE q + 1

\* a clamp that lets every value through
unclamped(lo, hi, v) == v

\* max(lo, min(hi, v))
clamped(lo, hi, v) == Max(lo, Min(hi, v))

\* weather_view.RUNWAY_VIEW_ROTATION_DEG and view_bearing
RUNWAY_VIEW_ROTATION_DEG == 180
view_bearing(bearing_deg) == (bearing_deg + RUNWAY_VIEW_ROTATION_DEG) % 360

\* common.bearing_to_xy for an integer distance
bearing_to_xy(cx, cy, bearing_deg, distance) ==
    << int_round(cx * Scale + distance * Sin(bearing_deg)),
       int_round(cy * Scale - distance * Cos(bearing_deg)) >>

\* least element of a non-empty set of integers
Least(S) == CHOOSE m \in S : \A k \in S : m <= k

\* weather_view.score_label_placement: (clearance, anchor_dist); the code
\* returns anchor_dist negated
score_label_placement(tx, ty, label_w, label_h, cx, cy, nx, ny, anchor_x, anchor_y) ==
    LET corners == { <<tx, ty>>, <<tx + label_w - 1, ty>>, <<tx, ty + label_h - 1>>,
                     <<tx + label_w - 1, ty + label_h - 1>> }
    IN  [ clearance |-> Least({ Abs((c[1] - cx) * nx + (c[2] - cy) * ny) : c \in corners }),
          anchor_dist |-> Abs(tx * Scale + (label_w * Scale) \div 2 - anchor_x)
                          + Abs(ty * Scale + (label_h * Scale) \div 2 - anchor_y) ]

\* the nested loops `for side ... for n_off ... for u_off`, in their order
Grid(sides, n_offs, u_offs) ==
    [ i \in 1..(Len(sides) * Len(n_offs) * Len(u_offs)) |->
        [ side  |-> sides[((i - 1) \div (Len(n_offs) * Len(u_offs))) + 1],
          n_off |-> n_offs[(((i - 1) \div Len(u_offs)) % Len(n_offs)) + 1],
          u_off |-> u_offs[((i - 1) % Len(u_offs)) + 1] ] ]

\* one candidate of a grid: the clamped top-left, the unclamped one, its score
Placement(g, label_w, label_h, heading_deg, anchor_x, anchor_y) ==
    LET ux == Sin(heading_deg)
        uy == 0 - Cos(heading_deg)
        nx == uy
        ny == 0 - ux
        lx == anchor_x + g.side * g.n_off * nx + g.u_off * ux
        ly == anchor_y + g.side * g.n_off * ny + g.u_off * uy
        tx_raw == int_round(lx - (label_w * Scale) \div 2)
        ty_raw == int_round(ly - (label_h * Scale) \div 2)
        tx == clamped(0, 64 - label_w, tx_raw)
        ty == clamped(0, 64 - label_h, ty_raw)
        score == score_label_placement(tx, ty, label_w, label_h, 32, 32, nx, ny,
                                       anchor_x, anchor_y)
    IN  [ tx |-> tx, ty |-> ty, side |-> g.side,
          clearance |-> score.clearance, anchor_dist |-> score.anchor_dist,
          clamp_penalty |-> Abs(tx - tx_raw) + Abs(ty - ty_raw) ]

\* choose_axis_label_position: score > best[0] on (clearance, -anchor_dist)
axis_better(p, best) ==
    \/ p.clearance > best.clearance
    \/ p.clearance = best.clearance /\ p.anchor_dist < best.anchor_dist

RECURSIVE axis_best(_, _, _, _, _, _, _)
axis_best(grid, best, label_w, label_h, heading_deg, anchor_x, anchor_y) ==
    IF grid = <<>> THEN best
    ELSE LET p == Placement(Head(grid), label_w, label_h, heading_deg, anchor_x, anchor_y)
         IN  axis_best(Tail(grid),
                       IF best = None \/ axis_better(p, best[1]) THEN Some(p) ELSE best,
                       label_w, label_h, heading_deg, anchor_x, anchor_y)

\* weather_view.choose_axis_label_position
choose_axis_label_position(label_w, label_h, axis_heading_deg, anchor_x, anchor_y) ==
    LET best == axis_best(Grid(<<1, 0 - 1>>, <<7, 9, 11>>, <<0 - 3, 0, 3>>), None,
                          label_w, label_h, axis_heading_deg, anchor_x, anchor_y)[1]
    IN  << clamped(0, 64 - label_w, best.tx - 2), clamped(0, 64 - label_h, best.ty + 1) >>

\* weather_view.choose_runway_label_position
choose_runway_label_position(label_w, label_h, runway_heading_deg, anchor_x, anchor_y) ==
    choose_axis_label_position(label_w, label_h, runway_heading_deg, anchor_x, anchor_y)

\* t = qi / pi as a fraction with a positive denominator, and its order
Fraction(qi, pi) == IF pi > 0 THEN <<qi, pi>> ELSE <<0 - qi, 0 - pi>>
FracLess(a, b) == a[1] * b[2] < b[1] * a[2]

\* segment_intersects_rect, the loop over zip(p, q); `hit` is FALSE once the
\* function has returned False
RECURSIVE clip(_, _, _)
clip(p, q, acc) ==
    IF p = <<>> \/ ~acc.hit THEN acc
    ELSE LET pi == Head(p)
             qi == Head(q)
             t == Fraction(qi, pi)
         IN  IF pi = 0
             THEN IF qi < 0 THEN [acc EXCEPT !.hit = FALSE]
                  ELSE clip(Tail(p), Tail(q), acc)
             ELSE IF pi < 0
             THEN IF FracLess(acc.t1, t) THEN [acc EXCEPT !.hit = FALSE]
                  ELSE clip(Tail(p), Tail(q),
                            [acc EXCEPT !.t0 = IF FracLess(acc.t0, t) THEN t ELSE acc.t0])
             ELSE IF FracLess(t, acc.t0) THEN [acc EXCEPT !.hit = FALSE]
                  ELSE clip(Tail(p), Tail(q),
                            [acc EXCEPT !.t1 = IF FracLess(t, acc.t1) THEN t ELSE acc.t1])

\* the test that holds when the bounding box of the segment meets the
\* rectangle
segment_intersects_rect_bounding_box(x0, y0, x1, y1, left, top, right, bottom) ==
    /\ Min(x0, x1) <= right /\ Max(x0, x1) >= left
    /\ Min(y0, y1) <= bottom /\ Max(y0, y1) >= top

\* weather_view.segment_intersects_rect
segment_intersects_rect(x0, y0, x1, y1, left, top, right, bottom) ==
    LET dx == x1 - x0
        dy == y1 - y0
    IN  clip(<<0 - dx, dx, 0 - dy, dy>>,
             <<x0 - left, right - x0, y0 - top, bottom - y0>>,
             [ t0 |-> <<0, 1>>, t1 |-> <<1, 1>>, hit |-> TRUE ]).hit

\* weather_view.label_overlaps_runway
label_overlaps_runway(label_x, label_y, label_w, label_h, runway_segment, runway_thickness, padding) ==
    LET half_thickness == Max(0, (runway_thickness - 1) \div 2)
        expand == half_thickness + Max(0, padding)
    IN  segment_intersects_rect(runway_segment[1], runway_segment[2],
                                runway_segment[3], runway_segment[4],
                                label_x - expand, label_y - expand,
                                label_x + label_w - 1 + expand,
                                label_y + label_h - 1 + expand)

\* choose_wind_label_position: score < best[0] on
\* (clamp_penalty, anchor_dist, -clearance)
wind_better(p, best) ==
    \/ p.clamp_penalty < best.clamp_penalty
    \/ /\ p.clamp_penalty = best.clamp_penalty
       /\ \/ p.anchor_dist < best.anchor_dist
          \/ p.anchor_dist = best.anchor_dist /\ p.clearance > best.clearance

\* the grid of pick_best and the default padding of label_overlaps_runway
wind_grid == Grid(<<1, 0 - 1>>, <<4, 5, 6>>, <<0 - 2, 0, 2>>)
overlap_padding == 1

\* pick_best of choose_wind_label_position: side_filter is None or a side
RECURSIVE pick_best(_, _, _, _, _, _, _, _, _, _, _)
pick_best(grid, best, side_filter, disallow_runway_overlap, label_w, label_h, heading_deg, anchor_x, anchor_y, runway_segment, runway_thickness) ==
    IF grid = <<>> THEN best
    ELSE LET g == Head(grid)
             p == Placement(g, label_w, label_h, heading_deg, anchor_x, anchor_y)
             skipped ==
                 \/ side_filter # None /\ g.side # side_filter[1]
                 \/ p.clearance < 2 * Scale
                 \/ /\ disallow_runway_overlap /\ runway_segment # None
                    /\ label_overlaps_runway(p.tx, p.ty, label_w, label_h, runway_segment[1],
                                             runway_thickness, overlap_padding)
         IN  pick_best(Tail(grid),
                       IF skipped THEN best
                       ELSE IF best = None \/ wind_better(p, best[1]) THEN Some(p) ELSE best,
                       side_filter, disallow_runway_overlap,
                       label_w, label_h, heading_deg, anchor_x, anchor_y,
                       runway_segment, runway_thickness)

\* weather_view.choose_wind_label_position; runway_segment is None or a
\* tuple (x0, y0, x1, y1)
choose_wind_label_position(label_w, label_h, wind_heading_deg, anchor_x, anchor_y, runway_segment, runway_thickness) ==
    LET best == pick_best(wind_grid, None, None, FALSE, label_w, label_h, wind_heading_deg,
                          anchor_x, anchor_y, runway_segment, runway_thickness)
    IN  IF best = None
        THEN choose_axis_label_position(label_w, label_h, wind_heading_deg, anchor_x, anchor_y)
        ELSE IF /\ runway_segment # None
                /\ label_overlaps_runway(best[1].tx, best[1].ty, label_w, label_h,
                                         runway_segment[1], runway_thickness, overlap_padding)
        THEN LET other == Some(0 - best[1].side)
                 strict == pick_best(wind_grid, None, other, TRUE, label_w, label_h,
                                     wind_heading_deg, anchor_x, anchor_y,
                                     runway_segment, runway_thickness)
                 opposite == IF strict # None THEN strict
                             ELSE pick_best(wind_grid, None, other, FALSE, label_w, label_h,
                                            wind_heading_deg, anchor_x, anchor_y,
                                            runway_segment, runway_thickness)
             IN  IF opposite # None THEN << opposite[1].tx, opposite[1].ty >>
                 ELSE << best[1].tx, best[1].ty >>
        ELSE << best[1].tx, best[1].ty >>

\* draw_runway_wind_diagram: the runway stroke, its thickness, and the
\* anchors it hands to the two label functions
runway_half_len == 22
runway_stroke_thickness == 7
runway_segment_of(runway_heading_deg) ==
    LET r0 == bearing_to_xy(32, 32, view_bearing(runway_heading_deg), runway_half_len)
        r1 == bearing_to_xy(32, 32, view_bearing((runway_heading_deg + 180) % 360),
                            runway_half_len)
    IN  << r0[1], r0[2], r1[1], r1[2] >>
midpoint(a0, a1) == << ((a0[1] + a1[1]) * Scale) \div 2, ((a0[2] + a1[2]) * Scale) \div 2 >>
wind_label_anchor(wind_from) ==
    midpoint(bearing_to_xy(32, 32, view_bearing(wind_from), 24),
             bearing_to_xy(32, 32, view_bearing(wind_from), 10))
runway_label_anchor(active_heading, runway_heading_deg) ==
    LET seg == runway_segment_of(runway_heading_deg)
        a0 == IF active_heading = runway_heading_deg THEN << seg[3], seg[4] >>
              ELSE << seg[1], seg[2] >>
        a1 == bearing_to_xy(a0[1], a0[2], view_bearing(active_heading), 11)
    IN  midpoint(a0, a1)

\* the inputs tried: wind directions in tens of degrees whose sine and cosine
\* are none of 0, 1/2 and 1 (there the last bit of the float decides exact
\* halves), runway headings, and label sizes from one character to the
\* whole screen
LabelWinds == { d \in 0..359 : d % 10 = 0 /\ d % 30 # 0 }
LabelRunways == { RUNWAY_HEADING_DEG, 20, 65, 250 }
LabelWidths == { 5, 11, 17, 29, 41, 64 }
LabelHeights == { 7, 64 }

InitLabels ==
    /\ ControllerParked /\ ClientParked /\ WeatherParked /\ FlightDataParked
    /\ SelectionParked
    /\ \E wind \in LabelWinds, heading \in LabelRunways,
          w \in LabelWidths, h \in LabelHeights :
          canvas = [ wind_from |-> wind, runway_heading_deg |-> heading,
                     label_w |-> w, label_h |-> h,
                     runway_label |-> NotRun, wind_label |-> NotRun ]

\* the runway label of draw_runway_wind_diagram
ChooseRunwayLabelPosition ==
    /\ canvas.runway_label = NotRun
    /\ LET active == resolve_active_runway_heading(Num(canvas.wind_from),
                                                   canvas.runway_heading_deg)[1]
           anchor == runway_label_anchor(active, canvas.runway_heading_deg)
       IN  canvas' = [canvas EXCEPT !.runway_label =
               Some(choose_runway_label_position(canvas.label_w, canvas.label_h,
                        canvas.runway_heading_deg, anchor[1], anchor[2]))]
    /\ UNCHANGED <<ctlVars, pixoo, weather, flightdata, selection>>

\* the wind label of draw_runway_wind_diagram
ChooseWindLabelPosition ==
    /\ canvas.wind_label = NotRun
    /\ LET anchor == wind_label_anchor(canvas.wind_from)
       IN  canvas' = [canvas EXCEPT !.wind_label =
               Some(choose_wind_label_position(canvas.label_w, canvas.label_h,
                        view_bearing(canvas.wind_from), anchor[1], anchor[2],
                        Some(runway_segment_of(canvas.runway_heading_deg)),
                        runway_stroke_thickness))]
    /\ UNCHANGED <<ctlVars, pixoo, weather, flightdata, selection>>

NextLabels == ChooseRunwayLabelPosition \/ ChooseWindLabelPosition

SpecLabels == InitLabels /\ [][NextLabels]_vars

----------------------------------------------------------------------------
\* common.draw_line: one call, one action per pass of its `while True` loop.

\* bound of the environment: how far outside the canvas an endpoint may lie
LineMargin == 3

\* the draw_px that wraps around the canvas instead of dropping
draw_px_wrapping(x, y) == { << x % 64, y % 64 >> }

\* common.draw_px: the pixels handed to pizzoo.draw_rectangle
draw_px(x, y) ==
    IF 0 <= x /\ x < 64 /\ 0 <= y /\ y < 64 THEN { << x, y >> } ELSE {}

\* draw_line up to its loop: the locals
draw_line_enter(x0, y0, x1, y1, thickness) ==
    [ x0 |-> x0, y0 |-> y0, x1 |-> x1, y1 |-> y1,
      dx |-> Abs(x1 - x0), sx |-> IF x0 < x1 THEN 1 ELSE 0 - 1,
      dy |-> 0 - Abs(y1 - y0), sy |-> IF y0 < y1 THEN 1 ELSE 0 - 1,
      err |-> Abs(x1 - x0) - Abs(y1 - y0),
      radius |-> Max(0, (thickness - 1) \div 2),
      pc |-> "loop", stepped |-> << >>, emitted |-> {},
      from |-> << x0, y0 >>, thickness |-> thickness ]

\* one pass of the loop of draw_line
draw_line_pass(l) ==
    LET square == UNION { draw_px(l.x0 + ox, l.y0 + oy) :
                          ox \in (0 - l.radius)..l.radius, oy \in (0 - l.radius)..l.radius }
        drawn == [l EXCEPT !.emitted = square, !.stepped = Append(@, << l.x0, l.y0 >>)]
        e2 == 2 * l.err
        step_x == e2 >= l.dy
        step_y == e2 <= l.dx
    IN  IF l.x0 = l.x1 /\ l.y0 = l.y1 THEN [drawn EXCEPT !.pc = "done"]
        ELSE [drawn EXCEPT
                 !.err = @ + (IF step_x THEN l.dy ELSE 0) + (IF step_y THEN l.dx ELSE 0),
                 !.x0 = IF step_x THEN @ + l.sx ELSE @,
                 !.y0 = IF step_y THEN @ + l.sy ELSE @]

\* endpoints on, at the edge of and outside the canvas; the thicknesses the
\* views draw with, and an even one
LineCoordinates == { 0 - LineMargin, 0, 2, 63, 63 + LineMargin }
Thicknesses == { 1, 2, 3, runway_stroke_thickness }

InitLine ==
    /\ ControllerParked /\ ClientParked /\ WeatherParked /\ FlightDataParked
    /\ SelectionParked
    /\ \E x0 \in LineCoordinates, y0 \in LineCoordinates,
          x1 \in LineCoordinates, y1 \in LineCoordinates, thickness \in Thicknesses :
          canvas = draw_line_enter(x0, y0, x1, y1, thickness)

DrawLinePass ==
    /\ canvas.pc = "loop"
    /\ canvas' = draw_line_pass(canvas)
    /\ UNCHANGED <<ctlVars, pixoo, weather, flightdata, selection>>

NextLine == DrawLinePass

SpecLine == InitLine /\ [][NextLine]_vars

\* the interpreter runs the loop: a pass that can be taken is taken
SpecLineFair == SpecLine /\ WF_vars(DrawLinePass)

----------------------------------------------------------------------------
\* Two payloads in a row: their signatures, and whether the controller, having
\* polled the first from its constructed state, draws on polling the second
\* (pixoo_radar/controller.py).  Telemetry is in tenths of a unit.

\* the payload fields tried: values on both sides of a rounding step, an exact
\* half, and None
Payloads ==
    [ icao24 : { None, Some("abc123"), Some("def456") },
      altitude : { None, Some(0), Some(4), Some(5), Some(6), Some(15) },
      ground_speed : { Some(2500), Some(2504) },
      heading : { Some(900), Some(905) },
      status : { None, Some(""), Some("CLIMB") } ]

\* the controller's fields after __init__
Constructed ==
    [ state |-> NoState, id |-> None, sig |-> None, backoff |-> no_flight_retry_seconds,
      view |-> NoView, calls |-> <<>>, exc |-> "none", raised |-> "none" ]

InitPair ==
    /\ ControllerParked /\ ClientParked /\ WeatherParked /\ FlightDataParked
    /\ SelectionParked
    /\ \E a \in Payloads, b \in Payloads :
          canvas = [ a |-> a, b |-> b, signatures |-> NotRun, redrawn |-> NotRun ]

\* flight_render_signature of each payload
SignBoth ==
    /\ canvas.signatures = NotRun
    /\ canvas' = [canvas EXCEPT !.signatures =
           Some(<< flight_render_signature(canvas.a), flight_render_signature(canvas.b) >>)]
    /\ UNCHANGED <<ctlVars, pixoo, weather, flightdata, selection>>

\* run_once() with the first payload on a constructed controller, then
\* run_once() with the second: did the second cycle call the renderer
PollBoth ==
    /\ canvas.redrawn = NotRun
    /\ \E render \in RenderOutcomes, conn \in ConnectOutcomes :
          LET first == run_once_flight(Constructed, canvas.a, "ok", "connected")
              second == run_once_flight([first EXCEPT !.calls = <<>>], canvas.b, render, conn)
          IN  canvas' = [canvas EXCEPT !.redrawn =
                  Some(\E i \in DOMAIN second.calls :
                          second.calls[i].op = "build_and_send_animation")]
    /\ UNCHANGED <<ctlVars, pixoo, weather, flightdata, selection>>

NextPair == SignBoth \/ PollBoth

SpecPair == InitPair /\ [][NextPair]_vars

----------------------------------------------------------------------------
\* render: the build_and_send_* calls and the frame buffer of the device object

MaxBuilds == 3
MaxCallsBeforeRaise == 11

PLANE_WIDTH == 5
ROUTE_START == 21
ROUTE_END == 43
ROUTE_WIDTH == ROUTE_END - ROUTE_START
AIRPLANE_CYCLE == ROUTE_WIDTH + PLANE_WIDTH
TOTAL_FRAMES == AIRPLANE_CYCLE

\* one call on the device object; x and cols are the glyph's position and
\* the columns it emits, labels the two rows of an info page
Cmd(op) == [ op |-> op, x |-> 0, cols |-> {}, labels |-> <<>> ]

\* a frame of the buffer: the drawing calls since it was cleared, and the
\* number of the render call that touched it last
BlankFrame(gen) == [ gen |-> gen, ops |-> <<>> ]

\* Pizzoo(...): the buffer starts with one blank frame
NewPizzoo == [ buffer |-> << BlankFrame(0) >> ]

pizzoo_cls(p, gen) ==
    [p EXCEPT !.buffer[Len(p.buffer)] = BlankFrame(gen)]

pizzoo_draw(p, gen, cmd) ==
    [p EXCEPT !.buffer[Len(p.buffer)] = [ gen |-> gen, ops |-> Append(@.ops, cmd) ]]

pizzoo_add_frame(p, gen) ==
    [p EXCEPT !.buffer = Append(@, BlankFrame(gen))]

pizzoo_reset_buffer(p, gen) ==
    [p EXCEPT !.buffer = << BlankFrame(gen) >>]

\* render(frame_speed) hands the whole buffer to the device; the library
\* either keeps the buffer or resets it afterwards
pizzoo_render(p, gen, resets) ==
    IF resets THEN pizzoo_reset_buffer(p, gen) ELSE p

ensure_clean_render_buffer_absent(p, gen) == p

\* reset_buffer() runs inside the try; whatever int() makes of its result,
\* the function returns normally
ensure_clean_render_buffer(p, gen) == pizzoo_reset_buffer(p, gen)

draw_airplane_icon_unclipped(x, clip_left, clip_right) ==
    [ Cmd("draw_airplane_icon") EXCEPT !.x = x, !.cols = x .. (x + 4) ]

draw_airplane_icon(x, clip_left, clip_right) ==
    [ Cmd("draw_airplane_icon") EXCEPT
        !.x = x,
        !.cols = { px \in x .. (x + 4) : clip_left <= px /\ px < clip_right }
                 \cup (IF clip_left <= x + 2 /\ x + 2 < clip_right THEN {x + 2} ELSE {})
                 \cup (IF clip_left <= x /\ x < clip_right THEN {x} ELSE {}) ]

info_pages ==
    << << "CS", "__ALT_RAW_FT__" >>, << "__TEXT_ONLY__", "REG" >>, << "SPD", "HDG" >> >>

draw_info_page(labels) == [ Cmd("draw_info_page") EXCEPT !.labels = labels ]

frames_per_page == TOTAL_FRAMES \div Len(info_pages)

\* 1-based position in info_pages of the page of frame frame_idx
page_idx(frame_idx) ==
    IF frame_idx \div frames_per_page < Len(info_pages) - 1
    THEN (frame_idx \div frames_per_page) + 1
    ELSE (Len(info_pages) - 1) + 1

\* the body of the loop over range(TOTAL_FRAMES)
animation_frame(frame_idx) ==
    << Cmd("cls"),
       Cmd("draw_top_section"),
       draw_airplane_icon(ROUTE_START - 5 + (frame_idx % AIRPLANE_CYCLE), ROUTE_START, ROUTE_END),
       draw_info_page(info_pages[page_idx(frame_idx)]) >>
    \o (IF frame_idx < TOTAL_FRAMES - 1 THEN << Cmd("add_frame") >> ELSE <<>>)

RECURSIVE animation_frames(_)
animation_frames(frame_idx) ==
    IF frame_idx >= TOTAL_FRAMES THEN <<>>
    ELSE animation_frame(frame_idx) \o animation_frames(frame_idx + 1)

build_and_send_animation ==
    << Cmd("ensure_clean_render_buffer") >> \o animation_frames(0) \o << Cmd("render") >>

build_and_send_weather_idle_screen ==
    << Cmd("ensure_clean_render_buffer"),
       Cmd("cls"), Cmd("draw_weather_summary_frame"),
       Cmd("add_frame"),
       Cmd("draw_runway_wind_diagram"),
       Cmd("render") >>

build_and_send_holding_screen ==
    << Cmd("ensure_clean_render_buffer"),
       Cmd("cls"), Cmd("draw_top_section"), draw_info_page(<< "STATUS", "RANGE" >>),
       Cmd("render") >>

build_and_send_poll_pause_screen ==
    << Cmd("ensure_clean_render_buffer"),
       Cmd("cls"), Cmd("draw_rectangle"),
       Cmd("draw_text"), Cmd("draw_text"), Cmd("draw_text"), Cmd("draw_text"),
       Cmd("render") >>

\* one call of a render function on the device object
perform(p, gen, cmd, resets) ==
    CASE cmd.op = "ensure_clean_render_buffer" -> ensure_clean_render_buffer(p, gen)
      [] cmd.op = "cls"       -> pizzoo_cls(p, gen)
      [] cmd.op = "add_frame" -> pizzoo_add_frame(p, gen)
      [] cmd.op = "render"    -> pizzoo_render(p, gen, resets)
      [] OTHER                -> pizzoo_draw(p, gen, cmd)

\* calls from .. n of a render function, in order; a buffer is never empty
RECURSIVE perform_all(_, _, _, _, _, _)
perform_all(p, gen, cmds, from, n, resets) ==
    IF from > n THEN p
    ELSE IF from = n THEN perform(p, gen, cmds[from], resets)
    ELSE LET half == (from + n) \div 2
             first == perform_all(p, gen, cmds, from, half, resets)
         IN  IF first.buffer = <<>> THEN first
             ELSE perform_all(first, gen, cmds, half + 1, n, resets)

\* a render function whose call number completed + 1 raises (none does when
\* completed is the number of its calls); sent is what render() handed over
build_and_send(r, kind, cmds, completed, resets) ==
    LET gen == r.gen + 1
        before_render == perform_all(r.pizzoo, gen, cmds, 1, IF completed < Len(cmds) THEN completed ELSE Len(cmds) - 1, resets)
        after == perform_all(r.pizzoo, gen, cmds, 1, completed, resets)
    IN  [ pizzoo |-> after,
          gen    |-> gen,
          kind   |-> kind,
          stale  |-> Len(r.pizzoo.buffer),
          trace  |-> SubSeq(cmds, 1, completed),
          raised |-> completed < Len(cmds),
          sent   |-> IF completed = Len(cmds) THEN before_render.buffer ELSE <<>> ]

InitRender ==
    /\ ControllerParked /\ ClientParked /\ WeatherParked /\ FlightDataParked
    /\ SelectionParked
    /\ canvas = [ pizzoo |-> NewPizzoo, gen |-> 0, kind |-> "none", stale |-> 0,
                  trace |-> <<>>, raised |-> FALSE, sent |-> <<>> ]

\* the calls a render function may have completed when it ends: any call
\* after ensure_clean_render_buffer may raise, here one of the first
\* MaxCallsBeforeRaise or the final render; none raises when all completed
Completions(cmds) ==
    { n \in 1 .. Len(cmds) : n <= MaxCallsBeforeRaise \/ n >= Len(cmds) - 1 }

Build(kind, cmds) ==
    /\ canvas.gen < MaxBuilds
    /\ \E completed \in Completions(cmds), resets \in BOOLEAN :
          canvas' = build_and_send(canvas, kind, cmds, completed, resets)
    /\ UNCHANGED <<ctlVars, pixoo, weather, flightdata, selection>>

BuildAndSendAnimation ==
    /\ Build("animation", build_and_send_animation)
    /\ canvas'.kind = "animation"

BuildAndSendWeatherIdleScreen ==
    /\ Build("weather", build_and_send_weather_idle_screen)
    /\ canvas'.kind = "weather"

BuildAndSendHoldingScreen ==
    /\ Build("holding", build_and_send_holding_screen)
    /\ canvas'.kind = "holding"

BuildAndSendPollPauseScreen ==
    /\ Build("poll_pause", build_and_send_poll_pause_screen)
    /\ canvas'.kind = "poll_pause"

\* the controller's reconnect after a failed render: a new device object
ReconnectDevice ==
    /\ canvas.raised
    /\ canvas' = [canvas EXCEPT !.pizzoo = NewPizzoo, !.raised = FALSE]
    /\ UNCHANGED <<ctlVars, pixoo, weather, flightdata, selection>>

NextRender ==
    \/ BuildAndSendAnimation
    \/ BuildAndSendWeatherIdleScreen
    \/ BuildAndSendHoldingScreen
    \/ BuildAndSendPollPauseScreen
    \/ ReconnectDevice

SpecRender == InitRender /\ [][NextRender]_vars

----------------------------------------------------------------------------
\* render: segment_intersects_rect on whole-pixel segments and rectangles

MaxSegmentCoordinate == 2

SegmentCoordinates == (0 - 1) .. MaxSegmentCoordinate

InitSegment ==
    /\ ControllerParked /\ ClientParked /\ WeatherParked /\ FlightDataParked
    /\ SelectionParked
    /\ \E x0 \in SegmentCoordinates, y0 \in SegmentCoordinates,
          x1 \in SegmentCoordinates, y1 \in SegmentCoordinates,
          left \in SegmentCoordinates, top \in SegmentCoordinates,
          right \in SegmentCoordinates, bottom \in SegmentCoordinates :
          /\ left <= right /\ top <= bottom
          /\ canvas = [ x0 |-> x0, y0 |-> y0, x1 |-> x1, y1 |-> y1,
                        left |-> left, top |-> top, right |-> right, bottom |-> bottom,
                        intersects |-> NotRun ]

SegmentIntersectsRect ==
    /\ canvas.intersects = NotRun
    /\ canvas' = [canvas EXCEPT !.intersects =
           Some(segment_intersects_rect(canvas.x0, canvas.y0, canvas.x1, canvas.y1,
                                        canvas.left, canvas.top, canvas.right, canvas.bottom))]
    /\ UNCHANGED <<ctlVars, pixoo, weather, flightdata, selection>>

NextSegment == SegmentIntersectsRect

SpecSegment == InitSegment /\ [][NextSegment]_vars

----------------------------------------------------------------------------
\* The poll loop on a FlightData object: run()'s cycles with the flight
\* service behind them (FlightService hands FlightData's answers through) and
\* a monotonic clock that every sleep_fn call advances by its argument.

MaxLoopCycles == 2

\* what the provider answers to the flight-list fetch of one poll
LoopListOutcomes == { None,
                      Some(Exc(Response(Some(429), Some(<<"1","2","0">>)), None, <<"b","o","o","m">>)) }
\* candidates whose telemetry is numeric
LoopLists == { <<>>, <<Parked>>, <<AirborneMid>> }

\* a numeric attribute of a provider flight object, in tenths
Tenths(v) == IF v.kind = "num" THEN Some(10 * v.n) ELSE None

\* FlightData.get_closest_flight_data / FlightService.get_closest_flight: the
\* payload fields the controller reads; the status text is the details' own
get_closest_flight_data(found) ==
    IF found.closest = None THEN None
    ELSE LET closest_flight == found.closest[1]
         IN  Some([ icao24 |-> Some(closest_flight.icao),
                    altitude |-> Tenths(closest_flight.altitude),
                    ground_speed |-> Tenths(closest_flight.ground_speed),
                    heading |-> Tenths(closest_flight.heading),
                    status |-> found.details ])

\* seconds the cycle spent in sleep_fn
RECURSIVE SleptIn(_)
SleptIn(cs) ==
    IF cs = <<>> THEN 0
    ELSE (IF Head(cs).op = "sleep_fn" THEN Head(cs).arg ELSE 0) + SleptIn(Tail(cs))

\* PixooRadarController.run_once from the poll on, on what the poll found
run_once_polled(c, found, mode, wx, render, conn) ==
    LET flight_snapshot == get_closest_flight_data(found)
        cooldown_remaining == get_api_cooldown_remaining(found.fd)
        api_error == get_last_api_error(found.fd)
    IN  IF flight_snapshot # None
        THEN run_once_flight(c, flight_snapshot[1], render, conn)
        ELSE run_once_no_flight(c, cooldown_remaining, api_error, mode, wx, render, conn)

\* PixooRadarController.__init__ with a FlightService of its own
InitLoop ==
    /\ ClientParked /\ WeatherParked /\ SelectionParked /\ CanvasParked
    /\ flightdata = [ obj |-> NewFlightData(0), last |-> NoCall ]
    /\ phase = "constructed"
    /\ idle_mode \in IdleModes
    /\ current_state = NoState
    /\ current_flight_id = None
    /\ current_flight_signature = None
    /\ no_data_retry_seconds = no_flight_retry_seconds
    /\ sent_view = NoView
    /\ calls = <<>>
    /\ pre = [ branch |-> "init", state |-> NoState, id |-> None, sig |-> None,
               backoff |-> no_flight_retry_seconds, view |-> NoView,
               flight |-> None, cooldown |-> 0, api_error |-> None ]
    /\ raised = "none"

\* one cycle of run()'s loop with the device reachable
RunOncePolled ==
    /\ phase = "polling"
    /\ raised = "none"
    /\ flightdata.last.ncalls < MaxLoopCycles
    /\ \E list_exc \in LoopListOutcomes, flights \in LoopLists, dout \in DetailsOutcomes,
          wx \in WeatherOutcomes, render \in RenderOutcomes, conn \in ConnectOutcomes :
          LET fd == flightdata.obj
              douts == [k \in 1..MaxDetailsCalls |-> dout]
              found == find_closest(fd, list_exc, flights, douts)
              flight_snapshot == get_closest_flight_data(found)
              c == run_once_polled(Ctl, found, idle_mode, wx, render, conn)
          IN  /\ current_state' = c.state
              /\ current_flight_id' = c.id
              /\ current_flight_signature' = c.sig
              /\ no_data_retry_seconds' = c.backoff
              /\ sent_view' = c.view
              /\ calls' = c.calls
              /\ raised' = c.raised
              /\ pre' = Pre(IF flight_snapshot # None THEN "flight" ELSE "noflight",
                            flight_snapshot, get_api_cooldown_remaining(found.fd),
                            get_last_api_error(found.fd))
              /\ flightdata' =
                     [ obj |-> [found.fd EXCEPT !.now = @ + SleptIn(c.calls)],
                       last |-> [ called |-> TRUE, ncalls |-> flightdata.last.ncalls + 1,
                                  before |-> fd, list_exc |-> list_exc,
                                  flights |-> flights, closest |-> found.closest,
                                  details |-> found.details, calls |-> found.calls,
                                  douts |-> douts ] ]
    /\ UNCHANGED <<phase, idle_mode, pixoo, weather, selection, canvas>>

NextLoop == RunStart \/ RunOnceOffline \/ RunOncePolled

SpecLoop == InitLoop /\ [][NextLoop]_vars

----------------------------------------------------------------------------
\* Reading the trace of the last cycle

CallsOf(op) == { i \in DOMAIN calls : calls[i].op = op }
RenderOps == { "build_and_send_animation", "build_and_send_weather_idle_screen",
               "build_and_send_holding_screen" }
WeatherOps == { "get_current", "get_current_with_options" }
RenderCalls == { i \in DOMAIN calls : calls[i].op \in RenderOps }
WeatherCalls == { i \in DOMAIN calls : calls[i].op \in WeatherOps }
OpsOfCycle == [i \in DOMAIN calls |-> calls[i].op]

\* the cycle returned to run()'s loop / a reconnect ran to its end in it
Returned == raised = "none"
Reconnected == \E i \in CallsOf("connect_with_retry") : calls[i].res = "connected"

\* the target state section 4.6 prescribes for a no-candidate cycle
PrescribedTarget(cooldown_remaining, api_error, mode) ==
    IF cooldown_remaining > 0 THEN "rate_limit"
    ELSE IF Truthy(api_error) THEN "api_error"
    ELSE IF lower(mode) = <<"w","e","a","t","h","e","r">> THEN "idle_weather"
    ELSE "idle_holding"

\* the screen that belongs to a render state
ViewOf(state) ==
    CASE state = "flight_active" -> AnimationView
      [] state = "idle_weather"  -> WeatherView
      [] state = "rate_limit"    -> HoldingView("RATE LIMIT")
      [] state = "api_error"     -> HoldingView("API ERROR")
      [] OTHER                   -> HoldingView("NO FLIGHTS")

FlightCycle == pre.branch = "flight"
NoFlightCycle == pre.branch = "noflight"
OfflineCycle == pre.branch = "offline"
CandidateChanged ==
    /\ FlightCycle
    /\ \/ pre.flight[1].icao24 # pre.id
       \/ Some(flight_render_signature(pre.flight[1])) # pre.sig
CandidateUnchanged ==
    /\ FlightCycle
    /\ pre.flight[1].icao24 = pre.id
    /\ Some(flight_render_signature(pre.flight[1])) = pre.sig

----------------------------------------------------------------------------
\* C1: a candidate whose icao24 or signature differs from the recorded one
\* (first flight after start-up, after a reconnect, after an idle or error
\* state included) is drawn with build_and_send_animation in that cycle, and
\* when the drawing succeeds the recorded identity and signature are the
\* candidate's.
C1_ChangedFlightIsDrawn ==
    CandidateChanged =>
        /\ CallsOf("build_and_send_animation") # {}
        /\ \A i \in CallsOf("build_and_send_animation") :
              calls[i].res = "ok" =>
                  /\ current_flight_id = pre.flight[1].icao24
                  /\ current_flight_signature = Some(flight_render_signature(pre.flight[1]))

\* C2: at every cycle boundary, a current_state other than None is the state
\* whose screen was the last one sent to the device since the last tracking
\* reset.
C2_StateHasItsView ==
    (Returned /\ current_state # NoState) => sent_view = ViewOf(current_state)

\* C3: a candidate whose icao24 and signature both equal the recorded ones
\* causes no render call, exactly one sleep_fn call, with
\* data_refresh_seconds, and leaves the recorded identity and signature as
\* they were.
C3_UnchangedFlightSleepsOnly ==
    CandidateUnchanged =>
        /\ RenderCalls = {}
        /\ Cardinality(CallsOf("sleep_fn")) = 1
        /\ \A i \in CallsOf("sleep_fn") : calls[i].arg = data_refresh_seconds
        /\ current_flight_id = pre.id
        /\ current_flight_signature = pre.sig
        /\ Returned

C3_Witness ==
    /\ CandidateUnchanged
    /\ pre.state = RenderState.FLIGHT_ACTIVE
    /\ pre.sig # None
    /\ CallsOf("sleep_fn") # {}

\* C4: resolve_target_state returns RATE_LIMIT when cooldown_remaining > 0,
\* else API_ERROR when api_error is non-empty, else IDLE_WEATHER when
\* idle_mode is "weather" in any letter case and IDLE_HOLDING otherwise, and
\* never FLIGHT_ACTIVE.
C4_ResolveTargetState ==
    \A i \in CallsOf("resolve_target_state") :
        /\ calls[i].res = PrescribedTarget(calls[i].arg[1], calls[i].arg[2], idle_mode)
        /\ calls[i].res # "flight_active"

\* C5: a no-candidate cycle that completes without a reconnect calls sleep_fn
\* exactly once, with max(b, cooldown_remaining) for b the backoff at the
\* start of the cycle; the backoff is still b during the sleep and is
\* min(2*b, no_flight_max_retry_seconds) once the cycle has ended.
C5_NoFlightSleepThenDouble ==
    (NoFlightCycle /\ Returned /\ ~Reconnected) =>
        /\ Cardinality(CallsOf("sleep_fn")) = 1
        /\ \A i \in CallsOf("sleep_fn") :
              /\ calls[i].arg = Max(pre.backoff, pre.cooldown)
              /\ calls[i].backoff = pre.backoff
              /\ i = Len(calls)
        /\ no_data_retry_seconds = Min(2 * pre.backoff, no_flight_max_retry_seconds)

C5_Witness ==
    /\ NoFlightCycle /\ Returned /\ ~Reconnected
    /\ pre.backoff = 15
    /\ pre.cooldown = 0
    /\ \E i \in CallsOf("sleep_fn") : calls[i].arg = 15
    /\ no_data_retry_seconds = 30

\* C6: no_data_retry_seconds stays within [no_flight_retry_seconds,
\* no_flight_max_retry_seconds]; a no-candidate cycle that sleeps never lowers
\* it; after a cycle that found a candidate, and after every reconnect, it is
\* at the floor.
C6_BackoffBounded ==
    /\ no_flight_retry_seconds <= no_data_retry_seconds
    /\ no_data_retry_seconds <= no_flight_max_retry_seconds
    /\ (NoFlightCycle /\ Returned /\ ~Reconnected) => no_data_retry_seconds >= pre.backoff
    /\ (FlightCycle /\ Returned) => no_data_retry_seconds = no_flight_retry_seconds
    /\ Reconnected => no_data_retry_seconds = no_flight_retry_seconds

C6_Witness ==
    /\ NoFlightCycle /\ Returned /\ ~Reconnected
    /\ pre.backoff = no_flight_max_retry_seconds
    /\ no_data_retry_seconds = no_flight_max_retry_seconds

\* C7: a no-candidate cycle whose target state differs from current_state
\* performs exactly one state-entry render, the one of the target state,
\* clears the recorded flight identity and signature, and on success leaves
\* current_state at the target state.  (Stated for the cycles whose weather
\* query, where the target needs one, returned.)
C7_TransitionRendersOnce ==
    LET target == PrescribedTarget(pre.cooldown, pre.api_error, idle_mode)
    IN  ( /\ NoFlightCycle
          /\ target # pre.state
          /\ \A i \in WeatherCalls : calls[i].res \in {"refreshed", "cached"} ) =>
            /\ Cardinality(RenderCalls) = 1
            /\ \A i \in RenderCalls :
                  /\ IF target = "idle_weather"
                     THEN calls[i].op = "build_and_send_weather_idle_screen"
                     ELSE /\ calls[i].op = "build_and_send_holding_screen"
                          /\ HoldingView(calls[i].arg) = ViewOf(target)
                  /\ calls[i].res = "ok" => current_state = target
            /\ current_flight_id = None
            /\ current_flight_signature = None

\* C8: a no-candidate cycle whose target state equals current_state queries
\* the weather service with get_current (never forced) and redraws the
\* weather screen exactly when the query reports refreshed, if the state is
\* IDLE_WEATHER; in RATE_LIMIT, API_ERROR and IDLE_HOLDING it makes no render
\* call and no weather query.
C8_SameStateTick ==
    LET target == PrescribedTarget(pre.cooldown, pre.api_error, idle_mode)
    IN  (NoFlightCycle /\ target = pre.state) =>
            IF target = "idle_weather"
            THEN /\ Cardinality(CallsOf("get_current")) = 1
                 /\ CallsOf("get_current_with_options") = {}
                 /\ Cardinality(RenderCalls) <= 1
                 /\ \A i \in RenderCalls : calls[i].op = "build_and_send_weather_idle_screen"
                 /\ (RenderCalls # {}) <=>
                        (\E i \in CallsOf("get_current") : calls[i].res = "refreshed")
            ELSE RenderCalls = {} /\ WeatherCalls = {}

C8_Witness ==
    /\ NoFlightCycle
    /\ pre.state = "idle_weather"
    /\ PrescribedTarget(pre.cooldown, pre.api_error, idle_mode) = "idle_weather"
    /\ \E i \in CallsOf("get_current") : calls[i].res = "refreshed"
    /\ \E i \in RenderCalls : calls[i].res = "ok"
    /\ Returned

\* C9: entering IDLE_WEATHER queries the weather service once, with
\* force_refresh true exactly when current_state was FLIGHT_ACTIVE just before
\* (from None, RATE_LIMIT or API_ERROR the query is not forced), and whatever
\* refreshed flag the query returns, the weather screen is rendered.
C9_ForceRefreshOnlyAfterFlight ==
    ( /\ NoFlightCycle
      /\ PrescribedTarget(pre.cooldown, pre.api_error, idle_mode) = "idle_weather"
      /\ pre.state # "idle_weather" ) =>
        /\ CallsOf("get_current") = {}
        /\ Cardinality(CallsOf("get_current_with_options")) = 1
        /\ \A i \in CallsOf("get_current_with_options") :
              /\ calls[i].arg = (pre.state = "flight_active")
              /\ calls[i].res \in {"refreshed", "cached"} =>
                    \E j \in CallsOf("build_and_send_weather_idle_screen") : j > i

C9_Witness ==
    /\ NoFlightCycle
    /\ pre.state = "flight_active"
    /\ \E i \in CallsOf("get_current_with_options") :
          calls[i].arg = TRUE /\ calls[i].res = "cached"
    /\ \E j \in CallsOf("build_and_send_weather_idle_screen") : calls[j].res = "ok"
    /\ current_state = "idle_weather"

C12_FatalWeatherErrorPropagates ==
    ( /\ NoFlightCycle
      /\ \E i \in RenderCalls \cup WeatherCalls : calls[i].res = "Fatal" ) =>
        /\ raised = "Fatal"
        /\ CallsOf("connect_with_retry") = {}
        /\ CallsOf("sleep_fn") = {}
        /\ current_state = pre.state
        /\ no_data_retry_seconds = pre.backoff
        /\ calls[Len(calls)].res = "Fatal"

C12_Witness ==
    /\ NoFlightCycle
    /\ pre.state = "idle_weather"
    /\ pre.backoff = 2 * no_flight_retry_seconds
    /\ \E i \in CallsOf("get_current") : calls[i].res = "Fatal"
    /\ raised = "Fatal"
    /\ current_state = "idle_weather"

\* the attempts of the call that failed, and the sleeps made
FailedAttempts == { i \in Attempts(pixoo) : pixoo.trace[i].res # "ok" }
SleptAfter(i) ==
    /\ i < Len(pixoo.trace)
    /\ pixoo.trace[i + 1].op = "sleep"
    /\ pixoo.trace[i + 1].res = pixoo_reconnect_seconds
    /\ pixoo.pc = "loop" \/ (i + 2 <= Len(pixoo.trace) /\ pixoo.trace[i + 2].op = "Pizzoo")
TimeoutElapsedAt(i) ==
    /\ pixoo.fail_fast
    /\ pixoo.trace[i].at >= pixoo.deadline[1]

\* C13: connect_with_retry(fail_fast = false) never raises and returns only
\* with a connected device, every failed attempt being followed by a sleep of
\* pixoo_reconnect_seconds and a new attempt; only the start-up call
\* (fail_fast = true) can raise, and only once the start-up timeout has
\* elapsed.
C13_OnlyStartupTimeoutRaises ==
    pixoo.pc # "idle" =>
        /\ pixoo.pc = "raised" => TimeoutElapsedAt(Len(pixoo.trace))
        /\ pixoo.pc = "returned" => pixoo.trace[Len(pixoo.trace)].res = "ok"
        /\ \A i \in FailedAttempts : ~TimeoutElapsedAt(i) => SleptAfter(i)

\* C13, amended: a RuntimeError raised by the attempt itself (the Pizzoo
\* constructor, or _load_fonts for a font that does not load) is re-raised at
\* once, with or without fail_fast and whatever the clock says; every attempt
\* that fails with another exception is followed by a sleep of
\* pixoo_reconnect_seconds and a new attempt, except in the start-up call once
\* the timeout has elapsed, which raises; the call returns only with a
\* connected device.
C13_RaisesOnRuntimeErrorOrStartupTimeout ==
    pixoo.pc # "idle" =>
        /\ pixoo.pc = "raised" =>
              \/ pixoo.trace[Len(pixoo.trace)].res = "RuntimeError"
              \/ TimeoutElapsedAt(Len(pixoo.trace))
        /\ pixoo.pc = "returned" => pixoo.trace[Len(pixoo.trace)].res = "ok"
        /\ \A i \in FailedAttempts :
              IF pixoo.trace[i].res = "RuntimeError" \/ TimeoutElapsedAt(i)
              THEN i = Len(pixoo.trace) /\ pixoo.pc = "raised"
              ELSE SleptAfter(i)

C13_Witness ==
    /\ pixoo.pc = "raised"
    /\ ~pixoo.fail_fast
    /\ Cardinality(Attempts(pixoo)) = 2
    /\ pixoo.trace[1].res = "OSError"
    /\ pixoo.trace[2].op = "sleep"
    /\ pixoo.trace[Len(pixoo.trace)].res = "RuntimeError"

\* Reading the last _find_closest call
FetchAttempted == flightdata.last.called /\ flightdata.last.calls # <<>>
ListFailed == FetchAttempted /\ flightdata.last.list_exc # None
ListArrived == FetchAttempted /\ flightdata.last.list_exc = None
DetailsCalls == { k \in DOMAIN flightdata.last.calls :
                    flightdata.last.calls[k] = "get_flight_details" }
DetailsFailed ==
    \E k \in 1..Cardinality(DetailsCalls) : flightdata.last.douts[k] # None

\* C14: after a call whose flight-list fetch returned (an empty list
\* included) and in which no provider call raised, get_last_api_error() is
\* empty; so a no-candidate cycle without cooldown resolves API_ERROR only
\* when a provider call of that poll raised.
C14_ListArrivalClearsApiError ==
    /\ (ListArrived /\ ~DetailsFailed) => get_last_api_error(flightdata.obj) = None
    /\ ( /\ flightdata.last.called
         /\ flightdata.last.closest = None
         /\ get_api_cooldown_remaining(flightdata.obj) = 0
         /\ resolve_target_state(0, get_last_api_error(flightdata.obj),
                                 <<"w","e","a","t","h","e","r">>) = RenderState.API_ERROR )
       => (ListFailed \/ DetailsFailed)

\* C15, the seconds the claim takes from an exception: the integer of the
\* Retry-After header when there is one that parses, else the N of an
\* embedded "retry after N", else the configured default
ClaimedRetryAfter(exc) ==
    LET header == IF exc.response = None THEN None ELSE exc.response[1].retry_after
    IN  IF header # None /\ PyInt(header[1]) # None THEN PyInt(header[1])[1]
        ELSE IF RetryAfterSearch(exc.message) # None THEN RetryAfterSearch(exc.message)[1]
        ELSE API_RATE_LIMIT_COOLDOWN_SECONDS
ClaimedRateLimited(exc) ==
    \/ extract_status_code(exc) = Some(429)
    \/ Contains(<<"r","a","t","e"," ","l","i","m","i","t">>, lower(exc.message))
    \/ Contains(<<"t","o","o"," ","m","a","n","y"," ","r","e","q","u","e","s","t","s">>,
                lower(exc.message))

\* C15: when the flight-list fetch raises, no flight is returned; an exception
\* with HTTP status 429, or whose message contains "rate limit" or "too many
\* requests", starts a cooldown of max(1, s) seconds, s taken from the
\* Retry-After header, else from "retry after N" in the message, else from the
\* configured default, and records the error; any other exception only
\* records the error and starts no cooldown.
C15_ListFailureClassified ==
    ListFailed =>
        LET exc == flightdata.last.list_exc[1]
            before == flightdata.last.before
        IN  /\ flightdata.last.closest = None
            /\ flightdata.last.details = None
            /\ IF ClaimedRateLimited(exc)
               THEN /\ flightdata.obj.api_cooldown_until =
                          before.now + Max(1, ClaimedRetryAfter(exc))
                    /\ get_api_cooldown_remaining(flightdata.obj) = Max(1, ClaimedRetryAfter(exc))
                    /\ get_last_api_error(flightdata.obj) =
                          Some("Rate-limited while fetching flights")
               ELSE /\ flightdata.obj.api_cooldown_until = before.api_cooldown_until
                    /\ get_api_cooldown_remaining(flightdata.obj) = 0
                    /\ get_last_api_error(flightdata.obj) = Some("Flight fetch error")

C15_Witness ==
    /\ ListFailed
    /\ flightdata.last.list_exc[1].response = None
    /\ flightdata.last.list_exc[1].status_code = None
    /\ RetryAfterSearch(flightdata.last.list_exc[1].message) = Some(0)
    /\ flightdata.last.before.last_api_error = None
    /\ get_api_cooldown_remaining(flightdata.obj) = 1

\* Reading the last WeatherData call
WeatherAsked == weather.last.op # "none"
PlainCall == WeatherAsked /\ ~weather.last.force_refresh
ForcedCall == WeatherAsked /\ weather.last.force_refresh
ProviderQueried == WeatherAsked /\ weather.last.made # <<>> /\ weather.last.made[1] = "provider"
HadCache == WeatherAsked /\ weather.last.before.cache # None
CacheAge == weather.now - weather.last.before.cache_at
TTL == Max(MinRefreshSeconds, weather.configured)
\* the refresh was attempted and produced no payload: both sources raised or
\* normalization had nothing
RefreshFailed ==
    /\ ProviderQueried
    /\ get_last_error(weather.obj) \in { Some("Weather provider error"),
                                         Some("Weather provider returned no data") }

C17_CachedExactlyBelowTTL ==
    (PlainCall /\ HadCache) =>
        /\ ( /\ weather.last.payload = weather.last.before.cache
             /\ ~weather.last.refreshed
             /\ weather.last.made = <<>> ) <=> (CacheAge < TTL)
        /\ (CacheAge >= TTL) => ProviderQueried

C17_Witness ==
    /\ PlainCall
    /\ HadCache
    /\ CacheAge = TTL
    /\ ProviderQueried
    /\ weather.last.payload = weather.last.before.cache
    /\ ~weather.last.refreshed

C19_FallbackIsCached ==
    /\ (RefreshFailed /\ ~HadCache) =>
          /\ weather.last.payload = Some(fallback_payload)
          /\ weather.last.payload[1].temperature_c = None
          /\ weather.last.payload[1].humidity_pct = None
          /\ weather.last.payload[1].wind_kph = None
          /\ weather.last.payload[1].wind_dir_deg = None
          /\ weather.obj.cache = Some(fallback_payload)
          /\ weather.obj.cache_at = weather.now
    /\ ( /\ PlainCall
         /\ weather.last.before.cache = Some(fallback_payload)
         /\ CacheAge < TTL ) =>
          /\ weather.last.payload = Some(fallback_payload)
          /\ weather.last.made = <<>>
          /\ weather.obj.cache = Some(fallback_payload)

C19_Witness ==
    /\ PlainCall
    /\ weather.last.ncalls = 2
    /\ weather.last.before.cache = Some(fallback_payload)
    /\ CacheAge = MinRefreshSeconds - 1
    /\ weather.last.payload = Some(fallback_payload)
    /\ weather.last.made = <<>>

\* Reading a selection
Chosen == selection.chosen[1].closest_flight
FoundClosest == selection.found[1].closest
\* a candidate on the ground that does not move / in the air and moving
StationaryOnGround(c) ==
    /\ c.altitude.kind = "num" /\ c.altitude.n <= 0
    /\ c.ground_speed.kind = "num" /\ c.ground_speed.n <= 0
AirborneMoving(c) ==
    /\ c.altitude.kind = "num" /\ c.altitude.n > 0
    /\ c.ground_speed.kind = "num" /\ c.ground_speed.n > 0
    /\ Truthy(c.airline_iata)
    /\ c.dist # None
\* the list holds one stationary candidate and one airborne moving one (with
\* an airline code and usable coordinates) that is farther away
ParkedNearMovingFar(m) ==
    /\ Len(selection.flights) = 2
    /\ \E i, j \in 1..2 :
          /\ i # j
          /\ selection.flights[j] = m
          /\ AirborneMoving(m)
          /\ StationaryOnGround(selection.flights[i])
          /\ selection.flights[i].dist # None
          /\ selection.flights[i].dist[1] < m.dist[1]

\* C20: whatever the list, neither choose_closest_flight nor _find_closest
\* selects a candidate with altitude <= 0 and ground speed <= 0; of a
\* stationary candidate and an airborne moving candidate farther away, both
\* select the moving one.
C20_StationaryNeverSelected ==
    /\ selection.chosen # NotRun =>
          /\ Chosen # None => ~StationaryOnGround(Chosen[1])
          /\ \A m \in Candidates : ParkedNearMovingFar(m) => Chosen = Some(m)
    /\ selection.found # NotRun =>
          /\ FoundClosest # None => ~StationaryOnGround(FoundClosest[1])
          /\ \A m \in Candidates : ParkedNearMovingFar(m) => FoundClosest = Some(m)

C20_Witness ==
    /\ selection.flights = <<Parked, AirborneFar>>
    /\ selection.chosen # NotRun
    /\ selection.found # NotRun
    /\ Chosen = Some(AirborneFar)
    /\ FoundClosest = Some(AirborneFar)

\* the parameters of the selection as the claims read them
RunwayHeading == selection.runway_heading_deg
Reciprocal == (RunwayHeading + 180) % 360
Tolerance ==
    IF selection.alignment_tolerance_deg.kind = "num"
    THEN selection.alignment_tolerance_deg.n ELSE alignment_tolerance_default
StatsOfChosen == selection.chosen[1].stats

\* distance of two directions on the circle, in whole degrees
CircularDistance(a, b) == Min((a - b) % 360, (b - a) % 360)

\* a candidate with an airline code that moves on the ground / is in the air
MovingOnGround(c) ==
    /\ Truthy(c.airline_iata)
    /\ c.altitude.kind = "num" /\ c.altitude.n <= 0
    /\ c.ground_speed.kind = "num" /\ c.ground_speed.n > 0
Airborne(c) ==
    /\ Truthy(c.airline_iata)
    /\ c.altitude.kind = "num" /\ c.altitude.n > 0
AlignedWithRunway(c) ==
    /\ c.heading.kind = "num"
    /\ \/ CircularDistance(c.heading.n, RunwayHeading) <= Tolerance
       \/ CircularDistance(c.heading.n, Reciprocal) <= Tolerance
Positions == DOMAIN selection.flights
ExcludedMovers ==
    { i \in Positions : /\ MovingOnGround(selection.flights[i])
                        /\ ~AlignedWithRunway(selection.flights[i]) }
RetainedMovers ==
    { i \in Positions : /\ MovingOnGround(selection.flights[i])
                        /\ AlignedWithRunway(selection.flights[i]) }
AirbornePositions == { i \in Positions : Airborne(selection.flights[i]) }

\* C21: choose_closest_flight excludes as taxiing exactly the candidates with
\* an airline code, altitude <= 0 and ground speed > 0 whose heading is missing,
\* non-numeric, or farther than the tolerance (inclusive, on the circle) from
\* both the runway heading and its reciprocal; the aligned ones and the
\* airborne ones are retained as usable, and a selected moving ground
\* candidate is aligned.
C21_TaxiingRetainedIffAligned ==
    selection.chosen # NotRun =>
        /\ StatsOfChosen.taxiing_ground = Cardinality(ExcludedMovers)
        /\ (RetainedMovers \cup AirbornePositions \cup ExcludedMovers = Positions) =>
               StatsOfChosen.usable = Cardinality(RetainedMovers \cup AirbornePositions)
        /\ (Chosen # None /\ MovingOnGround(Chosen[1])) => AlignedWithRunway(Chosen[1])
        /\ \A i \in RetainedMovers :
               (Len(selection.flights) = 1 /\ selection.flights[i].dist # None) =>
                   Chosen = Some(selection.flights[i])

C21_Witness ==
    /\ selection.flights = <<GroundMover("h121", Num(121)), GroundMover("h120", Num(120))>>
    /\ RunwayHeading = RUNWAY_HEADING_DEG
    /\ selection.alignment_tolerance_deg = Num(alignment_tolerance_default)
    /\ selection.chosen # NotRun
    /\ Chosen = Some(GroundMover("h120", Num(120)))
    /\ StatsOfChosen.taxiing_ground = 1

\* both selection functions have run on the list, choose_closest_flight with
\* the configured runway heading and the default tolerance
BothSelectedAsConfigured ==
    /\ selection.chosen # NotRun
    /\ selection.found # NotRun
    /\ RunwayHeading = RUNWAY_HEADING_DEG
    /\ Tolerance = alignment_tolerance_default

\* C22: on every candidate list, _find_closest (the path FlightService uses)
\* selects the candidate that choose_closest_flight selects with the
\* configured runway heading; a moving ground candidate that is not aligned
\* with the runway yields no flight.
C22_ControllerPathSelectsAsFilters ==
    BothSelectedAsConfigured => FoundClosest = Chosen

\* an attribute read as a number, an absent or unreadable one as 0
Reading(v) == IF v.kind = "num" THEN v.n ELSE 0

\* a candidate that no filter rejects and whose distance can be computed
RejectedAsStationary(c) == Reading(c.altitude) <= 0 /\ Reading(c.ground_speed) <= 0
RejectedAsTaxiing(c) ==
    /\ Reading(c.altitude) <= 0 /\ Reading(c.ground_speed) > 0
    /\ ~AlignedWithRunway(c)
Eligible(c) ==
    /\ Truthy(c.airline_iata)
    /\ ~RejectedAsStationary(c)
    /\ ~RejectedAsTaxiing(c)
    /\ c.dist # None
EligiblePositions == { i \in Positions : Eligible(selection.flights[i]) }

\* C23: choose_closest_flight returns None exactly when no candidate has an
\* airline code, passes the stationary and taxiing filters and has a
\* computable distance; otherwise it returns such a candidate, none of the
\* others is strictly closer, and every one before it in the list is
\* strictly farther.
C23_ClosestEligibleOrNone ==
    selection.chosen # NotRun =>
        /\ (Chosen = None) <=> (EligiblePositions = {})
        /\ EligiblePositions # {} =>
               \E i \in EligiblePositions :
                   /\ Chosen = Some(selection.flights[i])
                   /\ selection.chosen[1].selected_distance_km = selection.flights[i].dist
                   /\ \A j \in EligiblePositions :
                          /\ selection.flights[j].dist[1] >= selection.flights[i].dist[1]
                          /\ j < i => selection.flights[j].dist[1] > selection.flights[i].dist[1]

C23_Witness ==
    /\ selection.flights = <<GroundMover("h300", Num(300)), GroundMover("h120", Num(120))>>
    /\ RunwayHeading = RUNWAY_HEADING_DEG
    /\ Tolerance = alignment_tolerance_default
    /\ selection.chosen # NotRun
    /\ EligiblePositions = {1, 2}
    /\ Chosen = Some(GroundMover("h300", Num(300)))

\* the list without the candidates whose distance computation raises
DistanceComputes(c) == c.dist # None
WithoutDistanceFailures == SelectSeq(selection.flights, DistanceComputes)
DistanceFailures ==
    { i \in Positions : /\ Truthy(selection.flights[i].airline_iata)
                        /\ ~RejectedAsStationary(selection.flights[i])
                        /\ ~RejectedAsTaxiing(selection.flights[i])
                        /\ ~DistanceComputes(selection.flights[i]) }

\* C24: a candidate whose distance computation raises is skipped:
\* choose_closest_flight goes through the whole list, counts the failure, and
\* returns the candidate and distance it returns for the list without the
\* candidates whose distance raises.
C24_DistanceFailureSkipsCandidate ==
    selection.chosen # NotRun =>
        LET without == choose_closest_flight(WithoutDistanceFailures, RunwayHeading,
                                             selection.alignment_tolerance_deg)
        IN  /\ Chosen = without.closest_flight
            /\ selection.chosen[1].selected_distance_km = without.selected_distance_km
            /\ StatsOfChosen.total = Len(selection.flights)
            /\ StatsOfChosen.distance_error = Cardinality(DistanceFailures)

C24_Witness ==
    /\ selection.flights = <<AirborneFar, Lost>>
    /\ selection.chosen # NotRun
    /\ StatsOfChosen.distance_error = 1
    /\ Chosen = Some(AirborneFar)

\* Reading a direction
WindIsNumber == canvas.wind_dir_deg.kind = "num"
WindFrom == canvas.wind_dir_deg.n % 360
BaseHeading == canvas.runway_heading_deg
ReciprocalHeading == (canvas.runway_heading_deg + 180) % 360
ActiveHeading == canvas.active_heading[1]

\* C25: resolve_active_runway_heading returns None when there is no wind
\* direction; otherwise the base heading when wind-from is at most as far
\* (on the circle) from it as from the reciprocal, else the reciprocal
\* (heading + 180 mod 360); the result is within 90 degrees of wind-from,
\* and (280, 110) gives 290.
C25_ActiveHeadingFacesWind ==
    canvas.active_heading # NotRun =>
        /\ ~WindIsNumber => ActiveHeading = None
        /\ WindIsNumber =>
              /\ ActiveHeading =
                     Some(IF CircularDistance(WindFrom, BaseHeading)
                              <= CircularDistance(WindFrom, ReciprocalHeading)
                          THEN BaseHeading ELSE ReciprocalHeading)
              /\ CircularDistance(ActiveHeading[1], WindFrom) <= 90
        /\ (canvas.wind_dir_deg = Num(280) /\ BaseHeading = 110) => ActiveHeading = Some(290)

C25_Witness ==
    /\ canvas.wind_dir_deg = Num(280)
    /\ canvas.runway_heading_deg = RUNWAY_HEADING_DEG
    /\ canvas.active_heading = Some(Some(290))

\* C29: nearest_drawn_tick_bearing returns None when there is no direction;
\* otherwise a multiple of 10 in 0..350 at most 5 degrees (on the circle) from
\* the direction mod 360, no other tick being nearer; 123 gives 120, 127
\* gives 130, and 355..359 give 0.
C29_NearestTick ==
    canvas.tick # NotRun =>
        /\ ~WindIsNumber => canvas.tick[1] = None
        /\ WindIsNumber =>
              /\ canvas.tick[1] # None
              /\ LET t == canvas.tick[1][1]
                 IN  /\ t \in 0..350 /\ t % 10 = 0
                     /\ CircularDistance(t, WindFrom) <= 5
                     /\ \A k \in 0..35 :
                            CircularDistance(k * 10, WindFrom) >= CircularDistance(t, WindFrom)
                     /\ WindFrom = 123 => t = 120
                     /\ WindFrom = 127 => t = 130
                     /\ WindFrom >= 355 => t = 0

C29_Witness ==
    /\ canvas.wind_dir_deg = Num(127)
    /\ canvas.tick = Some(Some(130))

\* Reading a label placement
RunwayLabel == canvas.runway_label[1]
WindLabel == canvas.wind_label[1]
OnScreen(pos) ==
    /\ 0 <= pos[1] /\ pos[1] <= 64 - canvas.label_w
    /\ 0 <= pos[2] /\ pos[2] <= 64 - canvas.label_h

\* C26: the top-left that choose_runway_label_position and
\* choose_wind_label_position return keeps the label on the 64 x 64 screen:
\* 0 <= x <= 64 - label_w and 0 <= y <= 64 - label_h.
C26_LabelsStayOnScreen ==
    /\ canvas.runway_label # NotRun => OnScreen(RunwayLabel)
    /\ canvas.wind_label # NotRun => OnScreen(WindLabel)

\* a wide label pushed against the right edge, and a runway label placed too
C26_Witness ==
    /\ canvas.label_w = 41
    /\ canvas.wind_label # NotRun
    /\ canvas.runway_label # NotRun
    /\ WindLabel[1] = 64 - canvas.label_w

\* the runway stroke and the candidate placements of the wind label's grid
\* that keep a clearance of 2
RunwayStroke == runway_segment_of(canvas.runway_heading_deg)
OverlapsRunway(tx, ty) ==
    label_overlaps_runway(tx, ty, canvas.label_w, canvas.label_h, RunwayStroke,
                          runway_stroke_thickness, overlap_padding)
WindCandidates ==
    LET anchor == wind_label_anchor(canvas.wind_from)
        all == { Placement(wind_grid[i], canvas.label_w, canvas.label_h,
                           view_bearing(canvas.wind_from), anchor[1], anchor[2]) :
                 i \in DOMAIN wind_grid }
    IN  { p \in all : p.clearance >= 2 * Scale }

\* C27: with a runway segment, choose_wind_label_position returns a placement
\* that overlaps the runway stroke only when every candidate of its grid
\* (both sides, normal offsets 4, 5, 6, axis offsets -2, 0, 2, clearance >= 2)
\* overlaps it.
C27_WindLabelAvoidsRunway ==
    canvas.wind_label # NotRun =>
        ((\E p \in WindCandidates : ~OverlapsRunway(p.tx, p.ty))
            => ~OverlapsRunway(WindLabel[1], WindLabel[2]))

\* Reading a line being drawn
LineLength == Max(Abs(canvas.x1 - canvas.from[1]), Abs(canvas.y1 - canvas.from[2])) + 1
LineDone == canvas.pc = "done"
LastStepped == canvas.stepped[Len(canvas.stepped)]
SquareAround(p, r) ==
    { << x, y >> : x \in (p[1] - r)..(p[1] + r), y \in (p[2] - r)..(p[2] + r) }
OnCanvas(p) == p[1] \in 0..63 /\ p[2] \in 0..63
LineSafe ==
    /\ \A p \in canvas.emitted : OnCanvas(p)
    /\ Len(canvas.stepped) <= LineLength
    /\ canvas.stepped # << >> =>
          /\ canvas.stepped[1] = canvas.from
          /\ canvas.emitted =
                 { p \in SquareAround(LastStepped, (canvas.thickness - 1) \div 2) : OnCanvas(p) }
    /\ \A i \in 1..(Len(canvas.stepped) - 1) :
          /\ canvas.stepped[i + 1] # canvas.stepped[i]
          /\ Abs(canvas.stepped[i + 1][1] - canvas.stepped[i][1]) <= 1
          /\ Abs(canvas.stepped[i + 1][2] - canvas.stepped[i][2]) <= 1
    /\ LineDone =>
          /\ Len(canvas.stepped) = LineLength
          /\ LastStepped = << canvas.x1, canvas.y1 >>

\* C28: draw_line terminates; it steps through max(|x1-x0|, |y1-y0|) + 1
\* points from (x0, y0) to (x1, y1) inclusive, and each pass emits exactly
\* the pixels of the square of radius (thickness-1)//2 around the stepped
\* point that lie on the canvas 0..63 x 0..63.
C28_DrawLineTerminatesClipped == []LineSafe /\ <>LineDone

C28_Witness ==
    /\ LineDone
    /\ canvas.from = << 0 - LineMargin, 2 >>
    /\ << canvas.x1, canvas.y1 >> = << 63 + LineMargin, 63 >>
    /\ canvas.thickness = runway_stroke_thickness
    /\ Len(canvas.stepped) = LineLength
    /\ Cardinality(canvas.emitted) < 49

\* Reading a pair of payloads
StatusText(p) == IF p.status = None THEN "" ELSE p.status[1]
\* the integer nearest to a value in tenths (None read as 0), an exact half
\* going to the even neighbour
Nearest(o) ==
    LET t == IF o = None THEN 0 ELSE o[1]
        near == { (t \div 10), (t \div 10) + 1 }
    IN  CHOOSE n \in near :
            \A m \in near \ {n} :
                \/ Abs(10 * n - t) < Abs(10 * m - t)
                \/ Abs(10 * n - t) = Abs(10 * m - t) /\ n % 2 = 0
SameToTheEye(a, b) ==
    /\ a.icao24 = b.icao24
    /\ StatusText(a) = StatusText(b)
    /\ Nearest(a.altitude) = Nearest(b.altitude)
    /\ Nearest(a.ground_speed) = Nearest(b.ground_speed)
    /\ Nearest(a.heading) = Nearest(b.heading)

\* C30: the signatures of two payloads are equal exactly when the payloads
\* have the same icao24, the same status (None read as the empty string) and
\* altitude, ground speed and heading that round to the same integers (None
\* read as 0); polling the second of two such payloads after the first makes
\* no render call.
C30_SignatureEqualIffSameRounded ==
    /\ canvas.signatures # NotRun =>
          ((canvas.signatures[1][1] = canvas.signatures[1][2])
               <=> SameToTheEye(canvas.a, canvas.b))
    /\ (canvas.redrawn # NotRun /\ SameToTheEye(canvas.a, canvas.b)) =>
          canvas.redrawn[1] = FALSE

C30_Witness ==
    /\ canvas.a.icao24 = None /\ canvas.b.icao24 = None
    /\ canvas.a.altitude = Some(4) /\ canvas.b.altitude = None
    /\ canvas.a.ground_speed = Some(2500) /\ canvas.b.ground_speed = Some(2504)
    /\ canvas.a.heading = Some(900) /\ canvas.b.heading = Some(905)
    /\ canvas.a.status = None /\ canvas.b.status = Some("")
    /\ canvas.signatures # NotRun
    /\ canvas.signatures[1][1] = canvas.signatures[1][2]
    /\ canvas.redrawn = Some(FALSE)

\* C31: every build_and_send_* call invokes ensure_clean_render_buffer before
\* any clear, draw, add_frame or render call, and no frame that was buffered
\* before the call is among the frames its render hands to the device
BuiltOnce == canvas.gen > 0
FirstCallOfBuild == canvas.trace[1].op
SentFramesAreOfThisBuild == \A i \in DOMAIN canvas.sent : canvas.sent[i].gen = canvas.gen
AnimationSent == canvas.kind = "animation" /\ canvas.sent /= <<>>
TraceCalls(op) == { i \in DOMAIN canvas.trace : canvas.trace[i].op = op }
FrameCalls(i, op) == { k \in DOMAIN canvas.sent[i + 1].ops : canvas.sent[i + 1].ops[k].op = op }
GlyphAt(i, x) ==
    /\ Cardinality(FrameCalls(i, "draw_airplane_icon")) = 1
    /\ \A k \in FrameCalls(i, "draw_airplane_icon") :
          /\ canvas.sent[i + 1].ops[k].x = x
          /\ \A px \in canvas.sent[i + 1].ops[k].cols : 21 <= px /\ px < 43
PageShown(i, page) ==
    /\ Cardinality(FrameCalls(i, "draw_info_page")) = 1
    /\ \A k \in FrameCalls(i, "draw_info_page") :
          canvas.sent[i + 1].ops[k].labels = info_pages[page + 1]
FramesShowing(page) == { i \in 0 .. Len(canvas.sent) - 1 : PageShown(i, page) }
C32_AnimationFramesAndPages ==
    AnimationSent =>
        /\ Len(canvas.sent) = 27
        /\ Cardinality(TraceCalls("add_frame")) = 26
        /\ TraceCalls("render") = { Len(canvas.trace) }
        /\ \A i \in TraceCalls("add_frame") : i < Len(canvas.trace)
        /\ \A i \in 0 .. 26 : GlyphAt(i, 16 + i) /\ PageShown(i, Min(i \div 9, 2))
        /\ \A page \in 0 .. 2 : FramesShowing(page) = (9 * page) .. (9 * page + 8)

\* an animation was rendered whose glyph is partly clipped at both ends
C32_Witness ==
    /\ AnimationSent
    /\ \E k \in FrameCalls(0, "draw_airplane_icon") : canvas.sent[1].ops[k].cols = {}
    /\ \E k \in FrameCalls(26, "draw_airplane_icon") : canvas.sent[27].ops[k].cols = {42}

\* the candidates by the first category of choose_closest_flight they match
CountedMissingAirline == { i \in Positions : ~Truthy(selection.flights[i].airline_iata) }
CountedStationary ==
    { i \in Positions \ CountedMissingAirline : RejectedAsStationary(selection.flights[i]) }
CountedTaxiing ==
    { i \in Positions \ (CountedMissingAirline \cup CountedStationary) :
          RejectedAsTaxiing(selection.flights[i]) }
CountedUsable == Positions \ (CountedMissingAirline \cup CountedStationary \cup CountedTaxiing)

\* C33: the statistics of choose_closest_flight count every candidate in
\* exactly one category, the first it matches: total is the number of
\* candidates and the sum of missing_airline, stationary_ground,
\* taxiing_ground and usable; distance_error is at most usable; and
\* selected_distance_km is not None exactly when a candidate is returned
C33_StatsPartitionCandidates ==
    selection.chosen # NotRun =>
        /\ StatsOfChosen.total = Len(selection.flights)
        /\ StatsOfChosen.missing_airline = Cardinality(CountedMissingAirline)
        /\ StatsOfChosen.stationary_ground = Cardinality(CountedStationary)
        /\ StatsOfChosen.taxiing_ground = Cardinality(CountedTaxiing)
        /\ StatsOfChosen.usable = Cardinality(CountedUsable)
        /\ StatsOfChosen.total =
               StatsOfChosen.missing_airline + StatsOfChosen.stationary_ground
               + StatsOfChosen.taxiing_ground + StatsOfChosen.usable
        /\ StatsOfChosen.distance_error <= StatsOfChosen.usable
        /\ (selection.chosen[1].selected_distance_km # None) <=> (Chosen # None)

\* a usable candidate whose distance raises after a candidate without an
\* airline code: nothing returned, no distance
C33_Witness ==
    /\ selection.chosen # NotRun
    /\ Len(selection.flights) = 2
    /\ StatsOfChosen.missing_airline = 1
    /\ StatsOfChosen.usable = 1
    /\ StatsOfChosen.distance_error = 1
    /\ Chosen = None

\* the points of the segment at the parameters k / SegmentResolution: the
\* coordinates span SegmentSpan, so every parameter at which the segment
\* crosses a line through a rectangle side has a denominator that divides
\* SegmentResolution
SegmentSpan == MaxSegmentCoordinate + 1
RECURSIVE ProductUpTo(_)
ProductUpTo(n) == IF n <= 1 THEN 1 ELSE n * ProductUpTo(n - 1)
SegmentResolution == ProductUpTo(SegmentSpan)
PointInRect(k) ==
    LET x == canvas.x0 * SegmentResolution + k * (canvas.x1 - canvas.x0)
        y == canvas.y0 * SegmentResolution + k * (canvas.y1 - canvas.y0)
    IN  /\ canvas.left * SegmentResolution <= x /\ x <= canvas.right * SegmentResolution
        /\ canvas.top * SegmentResolution <= y /\ y <= canvas.bottom * SegmentResolution
SegmentMeetsRect == \E k \in 0 .. SegmentResolution : PointInRect(k)

\* C34: segment_intersects_rect returns true if and only if some point of
\* the closed segment (x0,y0)-(x1,y1) lies in the closed rectangle
\* [left,right] x [top,bottom], single-point and axis-parallel segments
\* included
C34_IntersectsIffPointInRect ==
    canvas.intersects # NotRun => (canvas.intersects[1] <=> SegmentMeetsRect)

\* a diagonal segment that passes a rectangle by its corner
C34_Witness ==
    /\ canvas.x0 = 0 /\ canvas.y0 = 0 /\ canvas.x1 = 2 /\ canvas.y1 = 2
    /\ canvas.left = 1 /\ canvas.right = 2 /\ canvas.top = 0 - 1 /\ canvas.bottom = 0
    /\ canvas.intersects = Some(FALSE)

\* the cycle entered a non-flight state: handle_state_transition was called
Tracking == current_flight_id # None \/ current_flight_signature # None
EnteredNonFlightState ==
    /\ NoFlightCycle
    /\ \E i \in CallsOf("resolve_target_state") :
          calls[i].res # AttributeError /\ calls[i].res # pre.state

\* C35: at every cycle boundary, if current_flight_id or
\* current_flight_signature is not None then current_state is FLIGHT_ACTIVE;
\* a cycle that entered a non-flight state and a cycle in which a reconnect
\* ran to its end leave both None
C35_TrackingOnlyWhileFlightActive ==
    /\ Tracking => current_state = RenderState.FLIGHT_ACTIVE
    /\ EnteredNonFlightState => ~Tracking
    /\ Reconnected => ~Tracking

\* a tracked flight was followed by a cycle that entered the rate-limit state
C35_Witness ==
    /\ pre.sig # None
    /\ pre.state = RenderState.FLIGHT_ACTIVE
    /\ EnteredNonFlightState
    /\ current_state = RenderState.RATE_LIMIT
    /\ ~Tracking

\* the call found the cooldown deadline ahead of the clock
CooldownActiveAtCall ==
    /\ flightdata.last.called
    /\ flightdata.last.before.api_cooldown_until > flightdata.last.before.now

\* C36: a _find_closest call made while a rate-limit cooldown is active
\* returns no flight and makes no call on the flight provider, and leaves
\* the cooldown deadline and the recorded error as they were
C36_ActiveCooldownBlocksProvider ==
    CooldownActiveAtCall =>
        /\ flightdata.last.closest = None
        /\ flightdata.last.details = None
        /\ flightdata.last.calls = <<>>
        /\ flightdata.obj.api_cooldown_until = flightdata.last.before.api_cooldown_until
        /\ flightdata.obj.last_api_error = flightdata.last.before.last_api_error

\* a call during a cooldown, at a moment the provider would have answered
\* with another rate-limit error
C36_Witness ==
    /\ CooldownActiveAtCall
    /\ flightdata.last.list_exc # None
    /\ is_rate_limited_error(flightdata.last.list_exc[1])
    /\ extract_retry_after_seconds(flightdata.last.list_exc[1]) >
           flightdata.last.before.api_cooldown_until - flightdata.last.before.now

\* the candidate and the details a _find_closest call returned;
\* get_closest_flight_data builds the payload from `details or {}`
ReturnedClosest == flightdata.last.closest
ReturnedDetails == flightdata.last.details

\* C39: the details get_closest_flight_data builds the payload from are the
\* result of get_flight_details on the returned closest candidate, or empty;
\* details fetched for another candidate are never attached to it
C39_DetailsBelongToReturnedFlight ==
    (flightdata.last.called /\ ReturnedClosest # None) =>
        \/ ReturnedDetails = None
        \/ ReturnedDetails = Some(ReturnedClosest[1].icao)

\* the call found a snapshot whose age had reached the TTL / its refresh
\* attempt produced a payload
TTLExpired == HadCache /\ CacheAge >= TTL
RefreshSucceeded == ProviderQueried /\ ~RefreshFailed

\* C40: a failed refresh that falls back to the cached snapshot leaves the
\* cache timestamp where it was; every get_current() call that finds the
\* snapshot's age at or beyond the TTL attempts the provider fetch; and an
\* attempt that succeeds replaces the snapshot, restarts its age and is
\* reported with refreshed = true
C40_FailedRefreshKeepsCacheAge ==
    /\ (RefreshFailed /\ HadCache) =>
          weather.obj.cache_at = weather.last.before.cache_at
    /\ (PlainCall /\ TTLExpired) => ProviderQueried
    /\ (PlainCall /\ TTLExpired /\ RefreshSucceeded) =>
          /\ weather.last.refreshed
          /\ weather.obj.cache = weather.last.payload
          /\ weather.obj.cache_at = weather.now

\* a provider snapshot cached at second 1, a failed refresh at second 31
\* when its age had reached the TTL, and a successful one a second later
C40_Witness ==
    /\ PlainCall
    /\ TTL = MinRefreshSeconds
    /\ weather.last.ncalls = 3
    /\ weather.now = MinRefreshSeconds + 2
    /\ weather.last.before.cache_at = 1
    /\ weather.last.before.cache # Some(fallback_payload)
    /\ weather.last.before.last_error = Some("Weather provider error")
    /\ RefreshSucceeded
    /\ weather.last.refreshed
    /\ weather.obj.cache_at = weather.now

\* a cycle given by its calls polled the flight provider / slept at least
\* `seconds` after the poll
PollsProvider(cs) == \E i \in DOMAIN cs : cs[i].op = "get_closest_flight"
SleptAfterPoll(cs, seconds) ==
    \E i \in DOMAIN cs, j \in DOMAIN cs :
        /\ i < j
        /\ cs[i].op = "get_closest_flight"
        /\ cs[j].op = "sleep_fn" /\ cs[j].arg >= seconds
MinPollInterval == Min(data_refresh_seconds, no_flight_retry_seconds)

\* C38 as stated: between two consecutive polls of the loop there is a
\* sleep_fn call of at least min(data_refresh_seconds,
\* no_flight_retry_seconds) seconds, whatever render failures and reconnects
\* occur
C38_SleepBetweenPolls ==
    [][ (PollsProvider(calls) /\ PollsProvider(calls')) =>
            SleptAfterPoll(calls, MinPollInterval) ]_vars

\* C38, amended: between two consecutive polls of the loop there is such a
\* sleep_fn call unless the cycle of the first poll ended by a caught render
\* or weather failure and a reconnect
C38_SleepBetweenPollsUnlessReconnected ==
    [][ (PollsProvider(calls) /\ ~Reconnected /\ PollsProvider(calls')) =>
            SleptAfterPoll(calls, MinPollInterval) ]_vars

\* a polling cycle that follows a polling cycle which ended without reconnect
C38_Witness ==
    /\ PollsProvider(calls)
    /\ pre.state = RenderState.FLIGHT_ACTIVE
    /\ pre.sig # None
    /\ SleptAfterPoll(calls, data_refresh_seconds)

----------------------------------------------------------------------------
\* a poll cycle that resolved RATE_LIMIT on a positive cooldown and ran to its sleep
CompletedRateLimitCycle ==
    /\ pre.branch = "noflight"
    /\ pre.cooldown > 0
    /\ current_state = RenderState.RATE_LIMIT
    /\ raised = "none"
    /\ CallsOf("sleep_fn") # {}
SleptTheCooldown == \A i \in CallsOf("sleep_fn") : calls[i].arg >= pre.cooldown
\* the step is a cycle that polls the flight service
PollsNext == flightdata'.last.ncalls = flightdata.last.ncalls + 1
QueriedProvider == "get_flights" \in { flightdata.last.calls[i] : i \in DOMAIN flightdata.last.calls }
ProviderAnsweredRateLimit ==
    \/ flightdata.last.list_exc # None /\ is_rate_limited_error(flightdata.last.list_exc[1])
    \/ /\ "get_flight_details" \in { flightdata.last.calls[i] : i \in DOMAIN flightdata.last.calls }
       /\ flightdata.last.douts[1] # None
       /\ is_rate_limited_error(flightdata.last.douts[1][1])
\* the process ended the way the loop prescribes for a lost device or a fatal weather error
EndedOnFatalError == raised \in {"RuntimeError", "Fatal"}

\* C37: a cycle that resolves RATE_LIMIT on cooldown_remaining = c > 0 and
\* completes sleeps at least c seconds; the next polling cycle queries the
\* flight provider again, and when the provider does not answer that query
\* with a rate-limit error the controller is no longer in RATE_LIMIT after it
C37_RateLimitSleepsThenQueriesAndLeaves ==
    [][ CompletedRateLimitCycle =>
            /\ SleptTheCooldown
            /\ PollsNext =>
                  /\ QueriedProvider'
                  /\ (~ProviderAnsweredRateLimit' /\ ~EndedOnFatalError') =>
                        current_state' # RenderState.RATE_LIMIT ]_vars

====
